---- MODULE Spec2Model ----
(***************************************************************************)
(* Notification service: the registry's dispatch pipeline                  *)
(* (src/src/registry/notification_registry.py) and the content-based       *)
(* deduplication policy (src/src/deduplication/content_based.py).          *)
(*                                                                         *)
(* Strings the code takes apart (concatenation, lower(), strip(), "in")    *)
(* are sequences of one-character strings; names the code only compares    *)
(* or looks up (data field names, event ids, service names) are plain      *)
(* strings.  Time is counted in hours, the unit of time_window_hours.      *)
(***************************************************************************)
EXTENDS Integers, Sequences, FiniteSets, TLC

VARIABLES
    now,                  \* datetime.now(), in hours
    services,             \* the interfaces container.get() can resolve
    configurations,       \* NotificationRegistry.configurations (insertion-ordered dict)
    sent_messages,        \* NotificationRegistry.sent_messages (History)
    sent_messages_cache,  \* ContentBasedDeduplicationPolicy.sent_messages_cache
    pc,                   \* per worker: where its process_events call stands
    frame,                \* per worker: the locals of its process_events call
    results,              \* per worker: the results list of its process_events call
    log,                  \* per worker and result: the pair and the collaborators invoked for it
    lastReg,              \* (event_type, channel) -> the configuration registered last for it
    prev,                 \* the pairs the call before sent successfully, nothing else since
    arg,                  \* the arguments of a direct call on a component
    ret,                  \* what that call returned
    queries,              \* ScheduledEventSource.queries (insertion-ordered dict)
    mock_data,            \* ScheduledEventSource.mock_data
    events_buffer         \* RealtimeEventSource.events_buffer

shared == <<services, configurations, sent_messages, sent_messages_cache>>
worker == <<pc, frame, results, log>>
sources == <<queries, mock_data, events_buffer>>
vars == <<now, shared, worker, lastReg, prev, arg, ret, sources>>

\* no event source is in use
NoSources == queries = <<>> /\ mock_data = <<>> /\ events_buffer = <<>>

(***************************************************************************)
(* Bounds of the model.                                                    *)
(***************************************************************************)
MaxTime == 2          \* the clock runs from 0 to MaxTime
MaxHistoryArg == 2    \* longest history list handed to a direct should_send call
MaxBatch == 2         \* most events in one process_events call
MaxSent == 2          \* process_events is called while History and cache cannot grow beyond this
MaxConfigs == 2       \* most configurations registered at a time

Workers == {1, 2}

\* The window of the policy instance, as the test constructs it.
time_window_hours == 1

(***************************************************************************)
(* Strings.                                                                *)
(***************************************************************************)
Uppers == <<"A","B","C","D","E","F","G","H","I","J","K","L","M",
            "N","O","P","Q","R","S","T","U","V","W","X","Y","Z">>
Lowers == <<"a","b","c","d","e","f","g","h","i","j","k","l","m",
            "n","o","p","q","r","s","t","u","v","w","x","y","z">>

Whitespace == {" ", "\t", "\n", "\r", "\f"}

\* str.lower(), one character
lowerChar(c) ==
    IF \E i \in 1..26 : Uppers[i] = c
    THEN Lowers[CHOOSE i \in 1..26 : Uppers[i] = c]
    ELSE c

\* str.lower()
lower(s) == [i \in 1..Len(s) |-> lowerChar(s[i])]

RECURSIVE lstrip(_)
lstrip(s) ==
    IF s # <<>> /\ Head(s) \in Whitespace THEN lstrip(Tail(s)) ELSE s

RECURSIVE rstrip(_)
rstrip(s) ==
    IF s # <<>> /\ s[Len(s)] \in Whitespace
    THEN rstrip(SubSeq(s, 1, Len(s) - 1))
    ELSE s

\* str.strip()
strip(s) == rstrip(lstrip(s))

\* sep.join(parts)
RECURSIVE join(_, _)
join(sep, parts) ==
    IF parts = <<>> THEN <<>>
    ELSE IF Len(parts) = 1 THEN parts[1]
    ELSE parts[1] \o sep \o join(sep, Tail(parts))

\* hashlib.sha256(...).hexdigest(), taken as an injective digest of its input
sha256_hexdigest(s) == <<"sha256", s>>

(***************************************************************************)
(* Values of an event's data mapping: strings, None, integers.             *)
(***************************************************************************)
StrVal(s) == [kind |-> "str", s |-> s]
NoneVal == [kind |-> "none", s |-> <<>>]
IntVal(digits) == [kind |-> "int", s |-> digits]

\* variant: every value that is present counts
truthy_present(v) == TRUE

\* Python truthiness: "", None and 0 are falsy
truthy(v) ==
    CASE v.kind = "str" -> v.s # <<>>
      [] v.kind = "none" -> FALSE
      [] v.kind = "int" -> v.s # <<"0">>

(***************************************************************************)
(* ContentBasedDeduplicationPolicy                                         *)
(***************************************************************************)
\* message.recipient.lower() raises AttributeError for a recipient that is no str
key_raises(message) == message.recipient.kind # "str"

key_string_sep == <<"|">>

\* variant: the recipient is not lower-cased
get_deduplication_key_nolower(message) ==
    sha256_hexdigest(join(key_string_sep, <<
        strip(message.content),
        message.recipient.s,
        lower(message.channel),
        lower(message.template) >>))

get_deduplication_key(message) ==
    sha256_hexdigest(join(key_string_sep, <<
        strip(message.content),
        lower(message.recipient.s),
        lower(message.channel),
        lower(message.template) >>))

\* variant: an entry exactly at the cutoff no longer counts
RECURSIVE should_send_loop_strict(_, _, _, _)
should_send_loop_strict(current_key, sent, i, cutoff_time) ==
    IF i > Len(sent) THEN TRUE
    ELSE IF sent[i].timestamp > cutoff_time
            /\ get_deduplication_key(sent[i]) = current_key
         THEN FALSE
         ELSE should_send_loop_strict(current_key, sent, i + 1, cutoff_time)

\* the loop of should_send over sent_messages[i..], with its early return
RECURSIVE should_send_loop(_, _, _, _)
should_send_loop(current_key, sent, i, cutoff_time) ==
    IF i > Len(sent) THEN TRUE
    ELSE IF sent[i].timestamp >= cutoff_time
            /\ get_deduplication_key(sent[i]) = current_key
         THEN FALSE
         ELSE should_send_loop(current_key, sent, i + 1, cutoff_time)

\* variant: the window is added to the current time instead of subtracted
should_send_cutoff_ahead(message, sent, t) ==
    should_send_loop(get_deduplication_key(message), sent, 1,
                     t + time_window_hours)

\* variant: the window is counted back from the message's own timestamp
should_send_from_message(message, sent, t) ==
    should_send_loop(get_deduplication_key(message), sent, 1,
                     message.timestamp - time_window_hours)

\* should_send(message, sent_messages) evaluated at wall-clock time t
should_send(message, sent, t) ==
    should_send_loop(get_deduplication_key(message), sent, 1,
                     t - time_window_hours)

\* variant: nothing is evicted
cleanup_old_messages_none(cache, t) == cache

\* variant: a key whose messages are all old stays, with an empty list
cleanup_old_messages_keep_keys(cache, t) ==
    [k \in DOMAIN cache |->
        SelectSeq(cache[k], LAMBDA msg : msg.timestamp >= t - time_window_hours)]

\* _cleanup_old_messages at wall-clock time t
cleanup_old_messages(cache, t) ==
    LET cutoff_time == t - time_window_hours
        recent(k) == SelectSeq(cache[k], LAMBDA msg : msg.timestamp >= cutoff_time)
    IN  [k \in {q \in DOMAIN cache : recent(q) # <<>>} |-> recent(k)]

\* add_sent_message(message) at wall-clock time t
add_sent_message(cache, message, t) ==
    LET key == get_deduplication_key(message)
        withKey == IF key \in DOMAIN cache THEN cache ELSE cache @@ (key :> <<>>)
        appended == [withKey EXCEPT ![key] = Append(@, message)]
    IN  cleanup_old_messages(appended, t)

\* get_duplicate_count(message)
get_duplicate_count(cache, message) ==
    LET key == get_deduplication_key(message)
    IN  IF key \in DOMAIN cache THEN Len(cache[key]) ELSE 0

\* cache_size()
RECURSIVE sum_len(_, _)
sum_len(cache, keys) ==
    IF keys = {} THEN 0
    ELSE LET k == CHOOSE q \in keys : TRUE
         IN  Len(cache[k]) + sum_len(cache, keys \ {k})

cache_size(cache) == sum_len(cache, DOMAIN cache)

\* get_all_sent_messages(): the lists of the cache, one after the other
RECURSIVE concat_lists(_, _)
concat_lists(cache, keys) ==
    IF keys = {} THEN <<>>
    ELSE LET k == CHOOSE q \in keys : TRUE
         IN  cache[k] \o concat_lists(cache, keys \ {k})

get_all_sent_messages(cache) == concat_lists(cache, DOMAIN cache)

(***************************************************************************)
(* Messages.                                                               *)
(***************************************************************************)
s_email == <<"e","m","a","i","l">>
s_Email == <<"E","m","a","i","l">>
s_slack == <<"s","l","a","c","k">>
r_user == <<"u","@","x",".","y">>
r_User == <<"U","@","x",".","y">>

NoMetadata == {}
SubjectMetadata == {<<"subject", "Welcome">>}

Message(content, recipient, channel, template, event_id, metadata, timestamp) ==
    [content |-> content, recipient |-> recipient, channel |-> channel,
     template |-> template, event_id |-> event_id, metadata |-> metadata,
     timestamp |-> timestamp]

NoRet == [op |-> "none"]

NoMessage == Message(<<>>, NoneVal, <<>>, <<>>, "", NoMetadata, 0)

(***************************************************************************)
(* Results.  A text with interpolated parts is the tuple of its parts.     *)
(***************************************************************************)
NoError == <<>>

Result(success, message, channel, recipient, error, timestamp) ==
    [success |-> success, message |-> message, channel |-> channel,
     recipient |-> recipient, error |-> error, timestamp |-> timestamp]

NoResult == Result(FALSE, <<>>, <<>>, NoneVal, NoError, 0)

\* str(e) of the exceptions the pipeline can raise
\* variant: the error does not say which field
ErrRecipient_unnamed(field) == <<"Recipient field not found in event data">>

ErrRecipient(field) == <<"Recipient field not found in event data", field>>
ErrService(interface) == <<"Service not registered", interface>>
\* variant: the error does not say which template
ErrRender_unnamed(template) == <<"Failed to render template">>

ErrRender(template) == <<"Failed to render template", template>>
\* variant: the error does not say which channel
ErrChannel_unnamed(channel) == <<"Channel not found">>

ErrChannel(channel) == <<"Channel not found", channel>>
ErrAttribute(name) == <<"object has no attribute", name>>

SkippedText == <<"Message skipped due to deduplication policy">>

(***************************************************************************)
(* Template engine: the template directory and render().                   *)
(***************************************************************************)
t_welcome == <<"w">>
t_absent == <<"n","o">>

Text(s) == [kind |-> "text", s |-> s, field |-> ""]
Var(field) == [kind |-> "var", s |-> <<>>, field |-> field]

\* the files of the template directory: "hi {{ name }}"
TemplateFiles == t_welcome :> <<Text(<<"h","i"," ">>), Var("name")>>

\* str(value), as a template prints it
str(v) ==
    CASE v.kind = "str" -> v.s
      [] v.kind = "none" -> <<"N","o","n","e">>
      [] v.kind = "int" -> v.s

\* template.render(**variables): an undefined variable prints as nothing
RECURSIVE render_parts(_, _)
render_parts(parts, variables) ==
    IF parts = <<>> THEN <<>>
    ELSE LET part == Head(parts)
             printed == IF part.kind = "text" THEN part.s
                        ELSE IF part.field \in DOMAIN variables
                             THEN str(variables[part.field])
                             ELSE <<>>
         IN  printed \o render_parts(Tail(parts), variables)

render_raises(template) == template \notin DOMAIN TemplateFiles

render(template, variables) == render_parts(TemplateFiles[template], variables)

(***************************************************************************)
(* Channels.                                                               *)
(***************************************************************************)
contains(s, c) == \E i \in 1..Len(s) : s[i] = c

\* s.split(sep)[1], for an s that contains sep
RECURSIVE upto(_, _)
upto(s, c) ==
    IF s = <<>> \/ Head(s) = c THEN <<>> ELSE <<Head(s)>> \o upto(Tail(s), c)

RECURSIVE after(_, _)
after(s, c) ==
    IF s = <<>> THEN <<>> ELSE IF Head(s) = c THEN Tail(s) ELSE after(Tail(s), c)

split_1(s, c) == upto(after(s, c), c)

\* variant: any address with an "@" is taken
email_validate_recipient_at(r) == r # <<>> /\ contains(r, "@")

\* EmailChannel.validate_recipient, for a str
email_validate_recipient(r) ==
    r # <<>> /\ contains(r, "@") /\ contains(split_1(r, "@"), ".")

\* SlackChannel.validate_recipient, for a str
slack_validate_recipient(r) ==
    r # <<>> /\ (r[1] = "#" \/ r[1] = "@")

\* EmailChannel.send; written: whether the file could be written
email_send(content, recipient, written, t) ==
    IF recipient.kind # "str" /\ truthy(recipient)
    THEN Result(FALSE, <<"Failed to send email">>, s_email, recipient,
                <<"argument is not iterable">>, t)
    ELSE IF ~truthy(recipient) \/ ~email_validate_recipient(recipient.s)
    THEN Result(FALSE, <<"Failed to send email">>, s_email, recipient,
                <<"Invalid email recipient", recipient>>, t)
    ELSE IF ~written
    THEN Result(FALSE, <<"Failed to send email">>, s_email, recipient,
                <<"OSError">>, t)
    ELSE Result(TRUE, <<"Email written to", recipient>>, s_email, recipient, NoError, t)

\* SlackChannel.send
slack_send(content, recipient, t) ==
    IF recipient.kind # "str" /\ truthy(recipient)
    THEN Result(FALSE, <<"Failed to send Slack message">>, s_slack, recipient,
                ErrAttribute("startswith"), t)
    ELSE IF ~truthy(recipient) \/ ~slack_validate_recipient(recipient.s)
    THEN Result(FALSE, <<"Failed to send Slack message">>, s_slack, recipient,
                <<"Invalid Slack recipient", recipient>>, t)
    ELSE Result(TRUE, <<"Slack message sent to", recipient>>, s_slack, recipient,
                NoError, t)

\* what the channel has delivered after send: the file EmailChannel writes,
\* the message SlackChannel prints; nothing when send ends in its except branch
email_delivered(content, recipient, written, t) ==
    IF email_send(content, recipient, written, t).success
    THEN <<[to |-> recipient, body |-> content]>>
    ELSE <<>>

slack_delivered(content, recipient, t) ==
    IF slack_send(content, recipient, t).success
    THEN <<[to |-> recipient, body |-> content]>>
    ELSE <<>>

(***************************************************************************)
(* Container: the interfaces the registry asks it for.                     *)
(***************************************************************************)
Interfaces == {"TemplateEngine", "EmailChannel", "SlackChannel",
               "ContentBasedDeduplicationPolicy"}

\* the containers a registry is constructed with: everything registered, the
\* default container (none of the registry's interfaces), and one without
\* a channel
Wirings == {Interfaces, {}, Interfaces \ {"EmailChannel"}}

\* the container of the end-to-end test: the default one, with the engine
\* registered as Jinja2TemplateEngine and the channel as EmailChannel
TestWiring == {"Jinja2TemplateEngine", "EmailChannel"}

\* DIContainer.get raises ValueError for an interface that is not registered
get_raises(registered, interface) == interface \notin registered

(***************************************************************************)
(* Configurations and events.                                              *)
(***************************************************************************)
s_content_based == <<"c","o","n","t","e","n","t","_","b","a","s","e","d">>
NoPolicy == <<>>
s_fuzzy == <<"f","u","z","z","y">>

Config(event_type, channel, template, recipient_field, deduplication_policy, metadata) ==
    [event_type |-> event_type, channel |-> channel, template |-> template,
     recipient_field |-> recipient_field,
     deduplication_policy |-> deduplication_policy, metadata |-> metadata]

Event(event_type, data, event_id) ==
    [event_type |-> event_type, data |-> data, event_id |-> event_id]

et_signup == <<"a","_","b">>
et_a == <<"a">>
ch_sms == <<"s","m","s">>
ch_b_email == <<"b","_","e","m","a","i","l">>

ConfigEmail == Config(et_signup, s_email, t_welcome, "email", s_content_based, SubjectMetadata)
ConfigSlack == Config(et_signup, s_slack, t_welcome, "chan", NoPolicy, NoMetadata)
ConfigSms == Config(et_signup, ch_sms, t_welcome, "chan", NoPolicy, NoMetadata)
ConfigEmail2 == Config(et_signup, s_email, t_absent, "email", NoPolicy, NoMetadata)
ConfigOther == Config(et_a, ch_b_email, t_welcome, "email", s_content_based, NoMetadata)
ConfigPlain == Config(et_signup, s_email, t_welcome, "email", NoPolicy, NoMetadata)
ConfigUnknown == Config(et_signup, s_slack, t_welcome, "chan", s_fuzzy, NoMetadata)
ConfigEmpty == Config(<<>>, s_email, t_welcome, "email", NoPolicy, NoMetadata)

\* the configurations registered where events are processed
PipelineConfigs == {ConfigEmail, ConfigSlack, ConfigSms, ConfigEmail2}

\* the configurations registered where only the configuration map is examined
ConfigPool == PipelineConfigs \cup {ConfigOther, ConfigPlain, ConfigUnknown, ConfigEmpty}

r_chan == <<"#","c">>
r_bad == <<"b","a","d">>
v_name == StrVal(<<"n">>)

EventFull ==
    Event(et_signup,
          ("email" :> StrVal(r_user)) @@ ("chan" :> StrVal(r_chan)) @@ ("name" :> v_name),
          "id1")
EventNoEmail ==
    Event(et_signup, ("chan" :> StrVal(r_chan)) @@ ("name" :> v_name), "id2")
EventBad ==
    Event(et_signup,
          ("email" :> StrVal(r_bad)) @@ ("chan" :> StrVal(r_bad)) @@ ("name" :> v_name),
          "id3")
EventInt ==
    Event(et_signup,
          ("email" :> IntVal(<<"5">>)) @@ ("chan" :> StrVal(r_chan)) @@ ("name" :> v_name),
          "id4")

EventPool == {EventFull, EventNoEmail, EventBad, EventInt}

Batches == UNION {[1..n -> EventPool] : n \in 1..MaxBatch}

(***************************************************************************)
(* NotificationRegistry: configurations.                                   *)
(***************************************************************************)
\* variant: the key is the (event_type, channel) pair itself
config_key_pair(config) == <<config.event_type, config.channel>>

\* key = f"{config.event_type}_{config.channel}"
config_key(config) == config.event_type \o <<"_">> \o config.channel

\* variant: a configuration for a registered key is ignored
register_notification_keep_first(cfgs, config) ==
    IF \E i \in 1..Len(cfgs) : cfgs[i].key = config_key(config)
    THEN cfgs
    ELSE Append(cfgs, [key |-> config_key(config), config |-> config])

\* variant: a configuration for a registered key moves to the end
register_notification_move_end(cfgs, config) ==
    Append(SelectSeq(cfgs, LAMBDA c : c.key # config_key(config)),
           [key |-> config_key(config), config |-> config])

\* self.configurations[key] = config: a dict keeps a key's first position
register_notification(cfgs, config) ==
    IF \E i \in 1..Len(cfgs) : cfgs[i].key = config_key(config)
    THEN LET i == CHOOSE j \in 1..Len(cfgs) : cfgs[j].key = config_key(config)
         IN  [cfgs EXCEPT ![i].config = config]
    ELSE Append(cfgs, [key |-> config_key(config), config |-> config])

\* list(self.configurations.values())
values(cfgs) == [i \in 1..Len(cfgs) |-> cfgs[i].config]

\* variant: the matching configurations, last registered first
get_configurations_reversed(cfgs, event_type) ==
    LET found == IF event_type # <<>>
                 THEN SelectSeq(values(cfgs), LAMBDA c : c.event_type = event_type)
                 ELSE values(cfgs)
    IN  [i \in 1..Len(found) |-> found[Len(found) + 1 - i]]

\* get_configurations(event_type): an empty event_type selects them all
get_configurations(cfgs, event_type) ==
    IF event_type # <<>>
    THEN SelectSeq(values(cfgs), LAMBDA c : c.event_type = event_type)
    ELSE values(cfgs)

\* the pair a configuration is registered for
Pair(config) == <<config.event_type, config.channel>>

\* registry.register_notification(config)
Register(config) ==
    /\ \A w \in Workers : pc[w] = "idle"
    /\ Len(register_notification(configurations, config)) <= MaxConfigs
    /\ configurations' = register_notification(configurations, config)
    /\ lastReg' = [p \in DOMAIN lastReg \cup {Pair(config)} |->
                      IF p = Pair(config) THEN config ELSE lastReg[p]]
    /\ prev' = <<>>
    /\ UNCHANGED <<now, sources, services, sent_messages, sent_messages_cache, worker, arg, ret>>

\* registry.clear_sent_messages()
ClearSentMessages ==
    /\ \A w \in Workers : pc[w] = "idle"
    /\ sent_messages # <<>>
    /\ sent_messages' = <<>>
    /\ prev' = <<>>
    /\ UNCHANGED <<now, sources, services, configurations, sent_messages_cache, worker,
                   lastReg, arg, ret>>

\* the clock advances by one hour
Tick ==
    /\ now < MaxTime
    /\ \A w \in Workers : pc[w] # "done"
    /\ now' = now + 1
    /\ UNCHANGED <<sources, shared, worker, lastReg, prev, arg, ret>>

(***************************************************************************)
(* NotificationRegistry: process_events, one step per access to the state  *)
(* the workers share.                                                      *)
(***************************************************************************)
\* calls: the collaborators invoked so far for the current pair
Frame(events, ev_i, configs, cfg_i, message, result, calls) ==
    [events |-> events, ev_i |-> ev_i, configs |-> configs, cfg_i |-> cfg_i,
     message |-> message, result |-> result, calls |-> calls]

NoFrame == Frame(<<>>, 0, <<>>, 0, NoMessage, NoResult, {})

\* the first event from index i on that has configurations, or Len(events) + 1
RECURSIVE next_event(_, _, _)
next_event(events, i, cfgs) ==
    IF i > Len(events) THEN i
    ELSE IF get_configurations(cfgs, events[i].event_type) # <<>> THEN i
    ELSE next_event(events, i + 1, cfgs)

\* the frame at the head of the loop body for event i ("for config in configs")
enter_event(events, i, cfgs) ==
    LET j == next_event(events, i, cfgs)
    IN  IF j > Len(events)
        THEN Frame(events, j, <<>>, 0, NoMessage, NoResult, {})
        ELSE Frame(events, j, get_configurations(cfgs, events[j].event_type), 1,
                   NoMessage, NoResult, {})

\* variant: the call ends with the current pair
next_pair_abort(f, cfgs) ==
    Frame(f.events, Len(f.events) + 1, <<>>, 0, NoMessage, NoResult, {})

\* the frame after the current pair: the next configuration, or the next event
next_pair(f, cfgs) ==
    IF f.cfg_i < Len(f.configs)
    THEN Frame(f.events, f.ev_i, f.configs, f.cfg_i + 1, NoMessage, NoResult, {})
    ELSE enter_event(f.events, f.ev_i + 1, cfgs)

pc_of(f) == IF f.ev_i > Len(f.events) THEN "done" ELSE "begin"

CurEvent(w) == frame[w].events[frame[w].ev_i]
CurConfig(w) == frame[w].configs[frame[w].cfg_i]

\* the except branch of process_events: the failure Result for exception e
failure_result(event, config, e, t) ==
    Result(FALSE, <<"Failed to process notification", e>>, config.channel,
           IF config.recipient_field \in DOMAIN event.data
           THEN event.data[config.recipient_field]
           ELSE StrVal(<<"u","n","k","n","o","w","n">>),
           e, t)

\* results.append(result), and on to the next pair
Finish(w, r, calls) ==
    /\ results' = [results EXCEPT ![w] = Append(@, r)]
    /\ log' = [log EXCEPT ![w] =
                 Append(@, [ev_i |-> frame[w].ev_i, config |-> CurConfig(w),
                            message |-> frame[w].message, calls |-> calls])]
    /\ frame' = [frame EXCEPT ![w] = next_pair(@, configurations)]
    /\ pc' = [pc EXCEPT ![w] = pc_of(next_pair(frame[w], configurations))]

\* the number of (event, configuration) pairs of a call
RECURSIVE pairs_of(_, _)
pairs_of(events, cfgs) ==
    IF events = <<>> THEN 0
    ELSE Len(get_configurations(cfgs, Head(events).event_type))
         + pairs_of(Tail(events), cfgs)

\* registry.process_events(events): up to the first pair
StartProcess(w, events) ==
    /\ pc[w] = "idle"
    /\ Len(sent_messages) + pairs_of(events, configurations) <= MaxSent
    /\ cache_size(sent_messages_cache) + pairs_of(events, configurations) <= MaxSent
    /\ frame' = [frame EXCEPT ![w] = enter_event(events, 1, configurations)]
    /\ pc' = [pc EXCEPT ![w] = pc_of(enter_event(events, 1, configurations))]
    /\ results' = [results EXCEPT ![w] = <<>>]
    /\ log' = [log EXCEPT ![w] = <<>>]
    /\ UNCHANGED <<now, sources, shared, lastReg, prev, arg, ret>>

\* the pairs of a call whose Result is a success, with their messages
successes(events, entries, rs) ==
    LET idx == SelectSeq([i \in 1..Len(rs) |-> i], LAMBDA i : rs[i].success)
    IN  [n \in 1..Len(idx) |->
            [event |-> events[entries[idx[n]].ev_i], config |-> entries[idx[n]].config,
             message |-> entries[idx[n]].message]]

\* return results: the caller takes the list, the call's locals are gone
Return(w) ==
    /\ pc[w] = "done"
    /\ pc' = [pc EXCEPT ![w] = "idle"]
    /\ frame' = [frame EXCEPT ![w] = NoFrame]
    /\ results' = [results EXCEPT ![w] = <<>>]
    /\ log' = [log EXCEPT ![w] = <<>>]
    /\ prev' = successes(frame[w].events, log[w], results[w])
    /\ UNCHANGED <<now, sources, shared, lastReg, arg, ret>>

\* variant: no policy name is recognised
policy_known_never(policy_name) == FALSE

\* _get_deduplication_policy(policy_name) returns a policy
policy_known(policy_name) == lower(policy_name) = s_content_based

\* variant: every sent message is remembered
should_record_always(result) == TRUE

\* "if result.success:" before the message is remembered
should_record(result) == result.success

\* variant: only the name email resolves to a channel
channel_interface_email(channel_name) ==
    IF lower(channel_name) = s_email THEN "EmailChannel" ELSE ""

\* the interface _get_channel(channel_name) asks the container for, or "" (None)
channel_interface(channel_name) ==
    IF lower(channel_name) = s_email THEN "EmailChannel"
    ELSE IF lower(channel_name) = s_slack THEN "SlackChannel"
    ELSE ""

\* _process_single_notification up to the message: recipient, render, Message
Begin(w) ==
    /\ pc[w] = "begin"
    /\ LET event == CurEvent(w)
           config == CurConfig(w)
           field == config.recipient_field
           found == field \in DOMAIN event.data /\ truthy(event.data[field])
           message == Message(render(config.template, event.data), event.data[field],
                              config.channel, config.template, event.event_id,
                              config.metadata, now)
       IN  IF ~found
           THEN Finish(w, failure_result(event, config, ErrRecipient(field), now), {})
           ELSE IF get_raises(services, "TemplateEngine")
           THEN Finish(w, failure_result(event, config, ErrService("TemplateEngine"), now),
                       {})
           ELSE IF render_raises(config.template)
           THEN Finish(w, failure_result(event, config, ErrRender(config.template), now),
                       {"render"})
           ELSE /\ frame' = [frame EXCEPT ![w].message = message, ![w].calls = {"render"}]
                /\ pc' = [pc EXCEPT ![w] = "check"]
                /\ UNCHANGED <<results, log>>
    /\ UNCHANGED <<now, sources, shared, lastReg, prev, arg, ret>>

\* variant: the skip carries an error
skip_result_error(config, message, t) ==
    Result(FALSE, SkippedText, config.channel, message.recipient, SkippedText, t)

\* the Result of a pair the policy suppresses
skip_result(config, message, t) ==
    Result(FALSE, SkippedText, config.channel, message.recipient, NoError, t)

\* variant: the policy is asked about the messages of its own cache
history_passed_cache(history, cache) == get_all_sent_messages(cache)

\* the list should_send is given: self.sent_messages
history_passed(history, cache) == history

\* the deduplication check of _process_single_notification
Check(w) ==
    /\ pc[w] = "check"
    /\ LET event == CurEvent(w)
           config == CurConfig(w)
           message == frame[w].message
           calls == frame[w].calls
       IN  IF config.deduplication_policy = NoPolicy
              \/ ~policy_known(config.deduplication_policy)
           THEN /\ pc' = [pc EXCEPT ![w] = "send"]
                /\ UNCHANGED <<frame, results, log>>
           ELSE IF get_raises(services, "ContentBasedDeduplicationPolicy")
           THEN Finish(w, failure_result(event, config,
                          ErrService("ContentBasedDeduplicationPolicy"), now), calls)
           ELSE IF key_raises(message)
           THEN Finish(w, failure_result(event, config, ErrAttribute("lower"), now),
                       calls \cup {"should_send"})
           ELSE IF ~should_send(message,
                                history_passed(sent_messages, sent_messages_cache), now)
           THEN Finish(w, skip_result(config, message, now), calls \cup {"should_send"})
           ELSE /\ frame' = [frame EXCEPT ![w].calls = calls \cup {"should_send"}]
                /\ pc' = [pc EXCEPT ![w] = "send"]
                /\ UNCHANGED <<results, log>>
    /\ UNCHANGED <<now, sources, shared, lastReg, prev, arg, ret>>

\* the channel lookup and channel.send of _process_single_notification
Send(w) ==
    /\ pc[w] = "send"
    /\ LET event == CurEvent(w)
           config == CurConfig(w)
           message == frame[w].message
           calls == frame[w].calls
           interface == channel_interface(config.channel)
       IN  IF interface # "" /\ get_raises(services, interface)
           THEN Finish(w, failure_result(event, config, ErrService(interface), now), calls)
           ELSE IF interface = ""
           THEN Finish(w, failure_result(event, config, ErrChannel(config.channel), now),
                       calls)
           ELSE \E written \in (IF interface = "EmailChannel" THEN BOOLEAN ELSE {TRUE}) :
                  LET r == IF interface = "EmailChannel"
                           THEN email_send(message.content, message.recipient, written, now)
                           ELSE slack_send(message.content, message.recipient, now)
                  IN  IF should_record(r)
                      THEN /\ frame' = [frame EXCEPT ![w].result = r,
                                                      ![w].calls = calls \cup {"send"}]
                           /\ pc' = [pc EXCEPT ![w] = "record"]
                           /\ UNCHANGED <<results, log>>
                      ELSE Finish(w, r, calls \cup {"send"})
    /\ UNCHANGED <<now, sources, shared, lastReg, prev, arg, ret>>

\* self.sent_messages.append(message)
record_sent(sent, message) == Append(sent, message)

\* after a successful send: sent_messages.append and the policy's add_sent_message
Record(w) ==
    /\ pc[w] = "record"
    /\ LET event == CurEvent(w)
           config == CurConfig(w)
           message == frame[w].message
           calls == frame[w].calls
       IN  /\ sent_messages' = record_sent(sent_messages, message)
           /\ IF config.deduplication_policy = NoPolicy
                 \/ ~policy_known(config.deduplication_policy)
              THEN /\ Finish(w, frame[w].result, calls)
                   /\ UNCHANGED sent_messages_cache
              ELSE IF get_raises(services, "ContentBasedDeduplicationPolicy")
              THEN /\ Finish(w, failure_result(event, config,
                                ErrService("ContentBasedDeduplicationPolicy"), now), calls)
                   /\ UNCHANGED sent_messages_cache
              ELSE /\ sent_messages_cache' =
                          add_sent_message(sent_messages_cache, message, now)
                   /\ Finish(w, frame[w].result, calls \cup {"add_sent_message"})
    /\ UNCHANGED <<now, sources, services, configurations, lastReg, prev, arg, ret>>

\* a registry with the container it is given
Init ==
    /\ now = 0
    /\ services \in Wirings
    /\ configurations = <<>>
    /\ sent_messages = <<>>
    /\ sent_messages_cache = <<>>
    /\ pc = [w \in Workers |-> "idle"]
    /\ frame = [w \in Workers |-> NoFrame]
    /\ results = [w \in Workers |-> <<>>]
    /\ log = [w \in Workers |-> <<>>]
    /\ lastReg = <<>>
    /\ prev = <<>>
    /\ NoSources
    /\ arg = NoRet
    /\ ret = NoRet

\* one caller at a time
Next ==
    \/ Tick
    \/ \E config \in PipelineConfigs : Register(config)
    \/ ClearSentMessages
    \/ \E events \in Batches : StartProcess(1, events)
    \/ Begin(1)
    \/ Check(1)
    \/ Send(1)
    \/ Record(1)
    \/ Return(1)

Spec == Init /\ [][Next]_vars

\* a configuration without a policy for the same channel and template as
\* ConfigEmail, and an event of its type with the data of EventFull
ConfigAPlain == Config(et_a, s_email, t_welcome, "email", NoPolicy, NoMetadata)
EventA == Event(et_a, EventFull.data, "id5")

HistoryConfigs == {ConfigEmail, ConfigAPlain}
HistoryBatches == UNION {[1..n -> {EventFull, EventA}] : n \in 1..MaxBatch}

\* a registry whose container provides every interface
HistoryInit == Init /\ services = Interfaces

\* one caller, History cleared now and then
HistoryNext ==
    \/ Tick
    \/ \E config \in HistoryConfigs : Register(config)
    \/ ClearSentMessages
    \/ \E events \in HistoryBatches : StartProcess(1, events)
    \/ Begin(1)
    \/ Check(1)
    \/ Send(1)
    \/ Record(1)
    \/ Return(1)

HistorySpec == HistoryInit /\ [][HistoryNext]_vars

\* registry.register_notifications(configs): one register_notification each
RECURSIVE register_notifications(_, _)
register_notifications(cfgs, configs) ==
    IF configs = <<>> THEN cfgs
    ELSE register_notifications(register_notification(cfgs, Head(configs)), Tail(configs))

\* the argument lists of register_notifications
ConfigLists == UNION {[1..n -> ConfigPool] : n \in 0..2}

RECURSIVE last_registered(_, _)
last_registered(reg, configs) ==
    IF configs = <<>> THEN reg
    ELSE last_registered([p \in DOMAIN reg \cup {Pair(Head(configs))} |->
                             IF p = Pair(Head(configs)) THEN Head(configs) ELSE reg[p]],
                         Tail(configs))

RegisterMany(configs) ==
    /\ \A w \in Workers : pc[w] = "idle"
    /\ Len(register_notifications(configurations, configs)) <= MaxConfigs
    /\ configurations' = register_notifications(configurations, configs)
    /\ lastReg' = last_registered(lastReg, configs)
    /\ prev' = <<>>
    /\ UNCHANGED <<now, sources, services, sent_messages, sent_messages_cache, worker, arg, ret>>

\* the event types configurations are asked for
EventTypes == {et_signup, et_a, <<>>, <<"z">>}

\* registry.get_configurations(event_type)
GetConfigurations(event_type) ==
    /\ \A w \in Workers : pc[w] = "idle"
    /\ arg' = [op |-> "get_configurations", event_type |-> event_type]
    /\ ret' = [op |-> "get_configurations", registered |-> values(configurations),
               value |-> get_configurations(configurations, event_type)]
    /\ UNCHANGED <<now, sources, shared, worker, lastReg, prev>>

\* a registry whose configurations are registered and read
RegNext ==
    \/ \E config \in ConfigPool : Register(config)
    \/ \E configs \in ConfigLists : RegisterMany(configs)
    \/ \E event_type \in EventTypes : GetConfigurations(event_type)

RegSpec == Init /\ [][RegNext]_vars

\* two (event_type, channel) pairs, two configurations for each
OrderConfigs == {ConfigEmail, ConfigPlain, ConfigSlack, ConfigUnknown}

\* a registry whose configurations are registered again between calls
OrderNext ==
    \/ \E config \in OrderConfigs : Register(config)
    \/ GetConfigurations(<<>>)
    \/ StartProcess(1, <<EventFull>>)
    \/ Begin(1)
    \/ Check(1)
    \/ Send(1)
    \/ Record(1)
    \/ Return(1)

OrderSpec == HistoryInit /\ [][OrderNext]_vars

\* events whose recipient field is present and falsy: "", None, 0
EventEmpty ==
    Event(et_signup, ("email" :> StrVal(<<>>)) @@ ("chan" :> StrVal(r_chan))
                     @@ ("name" :> v_name), "id6")
EventNone ==
    Event(et_signup, ("email" :> NoneVal) @@ ("chan" :> StrVal(r_chan))
                     @@ ("name" :> v_name), "id7")
EventZero ==
    Event(et_signup, ("email" :> IntVal(<<"0">>)) @@ ("chan" :> StrVal(r_chan))
                     @@ ("name" :> v_name), "id8")

FalsyBatches ==
    UNION {[1..n -> {EventEmpty, EventNone, EventZero, EventNoEmail, EventFull}] :
              n \in 1..MaxBatch}

\* a registry that is handed events with falsy recipients
FalsyNext ==
    \/ \E config \in {ConfigEmail, ConfigSlack} : Register(config)
    \/ \E events \in FalsyBatches : StartProcess(1, events)
    \/ Begin(1)
    \/ Check(1)
    \/ Send(1)
    \/ Record(1)
    \/ Return(1)

FalsySpec == HistoryInit /\ [][FalsyNext]_vars

\* the events and configurations of two concurrent callers
ConcBatches == {<<EventFull>>}
ConcConfigs == {ConfigEmail}

\* two callers of process_events on one registry, no lock between them
ConcNext ==
    \/ Tick
    \/ \E config \in ConcConfigs : Register(config)
    \/ \E w \in Workers :
          \/ \E events \in ConcBatches : StartProcess(w, events)
          \/ Begin(w)
          \/ Check(w)
          \/ Send(w)
          \/ Record(w)
          \/ Return(w)

ConcSpec == Init /\ [][ConcNext]_vars

\* configurations with a policy name, known or not
PolicyConfigs == {ConfigEmail, ConfigUnknown}

\* a registry whose configurations name a policy
NamesNext ==
    \/ Tick
    \/ \E config \in PolicyConfigs : Register(config)
    \/ \E events \in Batches : StartProcess(1, events)
    \/ Begin(1)
    \/ Check(1)
    \/ Send(1)
    \/ Record(1)
    \/ Return(1)

NamesSpec == Init /\ [][NamesNext]_vars

\* the registry of the end-to-end test, with the test's container and with
\* one where the engine is also registered as TemplateEngine
TestInit ==
    /\ now = 0
    /\ services \in {TestWiring, TestWiring \cup {"TemplateEngine"}}
    /\ configurations = <<>>
    /\ sent_messages = <<>>
    /\ sent_messages_cache = <<>>
    /\ pc = [w \in Workers |-> "idle"]
    /\ frame = [w \in Workers |-> NoFrame]
    /\ results = [w \in Workers |-> <<>>]
    /\ log = [w \in Workers |-> <<>>]
    /\ lastReg = <<>>
    /\ prev = <<>>
    /\ NoSources
    /\ arg = NoRet
    /\ ret = NoRet

\* the events the test's registry is given
TestBatches == UNION {[1..n -> {EventFull, EventNoEmail}] : n \in 1..MaxBatch}

TestNext ==
    \/ Tick
    \/ Register(ConfigPlain)
    \/ \E events \in TestBatches : StartProcess(1, events)
    \/ Begin(1)
    \/ Check(1)
    \/ Send(1)
    \/ Record(1)
    \/ Return(1)

TestSpec == TestInit /\ [][TestNext]_vars

(***************************************************************************)
(* Direct use of the policy, as the tests use it.                          *)
(***************************************************************************)
\* messages whose keys are compared
KeyContents == {<<"x">>, <<" ","x","\t">>, <<"y">>}
KeyRecipients == {StrVal(r_user), StrVal(r_User)}
KeyChannels == {s_email, s_Email}
KeyTemplates == {<<"t">>, <<"T">>}
KeyRest == {<<"id1", NoMetadata, 0>>, <<"id2", SubjectMetadata, MaxTime>>}

KeyMessages ==
    {Message(c, r, ch, t, x[1], x[2], x[3]) :
        c \in KeyContents, r \in KeyRecipients, ch \in KeyChannels,
        t \in KeyTemplates, x \in KeyRest}

\* messages handed to should_send and add_sent_message
PolicyShapes == {<<<<"x">>, StrVal(r_user)>>, <<<<" ","x","\t">>, StrVal(r_User)>>,
                 <<<<"y">>, StrVal(r_user)>>}

PolicyMessages ==
    {Message(sh[1], sh[2], s_email, <<"t">>, "id1", NoMetadata, ts) :
        sh \in PolicyShapes, ts \in 0..MaxTime}

Histories ==
    UNION {[1..n -> PolicyMessages] : n \in 0..MaxHistoryArg}

\* the arguments of one direct call on the policy
KeyArgs == {[op |-> "keys", m1 |-> m1, m2 |-> m2] : m1 \in KeyMessages, m2 \in KeyMessages}

ShouldSendArgs ==
    {[op |-> "should_send", message |-> m, history |-> h] :
        m \in PolicyMessages, h \in Histories}

\* the cache of a policy that was given the messages of h, none evicted yet
cache_of(h) ==
    LET keys == {get_deduplication_key(h[i]) : i \in 1..Len(h)}
    IN  [k \in keys |-> SelectSeq(h, LAMBDA m : get_deduplication_key(m) = k)]

AddArgs ==
    {[op |-> "add_sent_message", message |-> m, cache |-> cache_of(h)] :
        m \in PolicyMessages, h \in Histories}

\* a policy instance, the arguments of a call on it, and the time of the call
PolicyInit ==
    /\ now \in 0..MaxTime
    /\ arg \in KeyArgs \cup ShouldSendArgs
    /\ ret = NoRet
    /\ services = {}
    /\ configurations = <<>>
    /\ sent_messages = <<>>
    /\ sent_messages_cache = <<>>
    /\ pc = [w \in Workers |-> "idle"]
    /\ frame = [w \in Workers |-> NoFrame]
    /\ results = [w \in Workers |-> <<>>]
    /\ log = [w \in Workers |-> <<>>]
    /\ lastReg = <<>>
    /\ prev = <<>>
    /\ NoSources

\* policy.should_send(message, history)
CallShouldSend ==
    /\ arg.op = "should_send"
    /\ ret = NoRet
    /\ ret' = [op |-> "should_send", at |-> now,
               value |-> should_send(arg.message, arg.history, now)]
    /\ UNCHANGED <<now, sources, arg, shared, worker, lastReg, prev>>

\* policy.get_deduplication_key(m1), policy.get_deduplication_key(m2)
CallKeys ==
    /\ arg.op = "keys"
    /\ ret = NoRet
    /\ ret' = [op |-> "keys", key1 |-> get_deduplication_key(arg.m1),
               key2 |-> get_deduplication_key(arg.m2)]
    /\ UNCHANGED <<now, sources, arg, shared, worker, lastReg, prev>>

\* policy.add_sent_message(message) on a policy with the cache arg.cache
CallAddSentMessage ==
    /\ arg.op = "add_sent_message"
    /\ ret = NoRet
    /\ ret' = [op |-> "add_sent_message", at |-> now,
               value |-> add_sent_message(arg.cache, arg.message, now)]
    /\ UNCHANGED <<now, sources, arg, shared, worker, lastReg, prev>>

PolicyNext ==
    \/ CallShouldSend
    \/ CallKeys

PolicySpec == PolicyInit /\ [][PolicyNext]_vars

\* a policy instance with a cache, a message to record, and the time of the call
CacheInit ==
    /\ now \in 0..MaxTime
    /\ arg \in AddArgs
    /\ ret = NoRet
    /\ services = {}
    /\ configurations = <<>>
    /\ sent_messages = <<>>
    /\ sent_messages_cache = <<>>
    /\ pc = [w \in Workers |-> "idle"]
    /\ frame = [w \in Workers |-> NoFrame]
    /\ results = [w \in Workers |-> <<>>]
    /\ log = [w \in Workers |-> <<>>]
    /\ lastReg = <<>>
    /\ prev = <<>>
    /\ NoSources

CacheNext == CallAddSentMessage

CacheSpec == CacheInit /\ [][CacheNext]_vars

\* a policy instance, a message and a history for should_send, and the time
\* of the call
ResendInit ==
    /\ now \in 0..MaxTime
    /\ arg \in ShouldSendArgs
    /\ ret = NoRet
    /\ services = {}
    /\ configurations = <<>>
    /\ sent_messages = <<>>
    /\ sent_messages_cache = <<>>
    /\ pc = [w \in Workers |-> "idle"]
    /\ frame = [w \in Workers |-> NoFrame]
    /\ results = [w \in Workers |-> <<>>]
    /\ log = [w \in Workers |-> <<>>]
    /\ lastReg = <<>>
    /\ prev = <<>>
    /\ NoSources

ResendNext == CallShouldSend

ResendSpec == ResendInit /\ [][ResendNext]_vars

(***************************************************************************)
(* Properties of the policy's pure functions (under PolicySpec).           *)
(***************************************************************************)
SameKey(m1, m2) == get_deduplication_key(m1) = get_deduplication_key(m2)

\* m1 and m2 are the same message but for timestamp, event id and metadata
Identical(m1, m2) ==
    /\ m1.content = m2.content
    /\ m1.recipient = m2.recipient
    /\ m1.channel = m2.channel
    /\ m1.template = m2.template

ShouldSendReturned == arg.op = "should_send" /\ ret # NoRet

\* the history holds an identical message with timestamp t0, and every entry
\* of the history with the message's key has timestamp t0
SentOnceAt(t0) ==
    /\ \E i \in 1..Len(arg.history) :
          Identical(arg.history[i], arg.message) /\ arg.history[i].timestamp = t0
    /\ \A i \in 1..Len(arg.history) :
          SameKey(arg.history[i], arg.message) => arg.history[i].timestamp = t0

\* C2, as stated: an identical message sent at t0 suppresses a second one at
\* t0 + D when D < W and no longer when D >= W, the boundary D = W included.
C2_AsStated ==
    ShouldSendReturned =>
        \A t0 \in 0..MaxTime :
            SentOnceAt(t0) =>
                /\ (ret.at - t0 < time_window_hours => ret.value = FALSE)
                /\ (ret.at - t0 >= time_window_hours => ret.value = TRUE)

\* C2, amended: the second call returns false when D <= W and true when D > W;
\* at the boundary D = W the message is still suppressed.
C2_WindowBoundary ==
    ShouldSendReturned =>
        \A t0 \in 0..MaxTime :
            SentOnceAt(t0) =>
                /\ (ret.at - t0 <= time_window_hours => ret.value = FALSE)
                /\ (ret.at - t0 > time_window_hours => ret.value = TRUE)

\* should_send has answered for a message sent exactly one window earlier
C2_Witness ==
    /\ ShouldSendReturned
    /\ \E t0 \in 0..MaxTime : SentOnceAt(t0) /\ ret.at - t0 = time_window_hours
    /\ ret.value = FALSE

\* C3: should_send returns false if and only if some entry of the history has
\* timestamp >= now - W and the dedup key of the message; for every other
\* history, the empty one included, it returns true.
C3_ShouldSendIff ==
    ShouldSendReturned =>
        (ret.value = FALSE <=>
            \E i \in 1..Len(arg.history) :
                /\ arg.history[i].timestamp >= ret.at - time_window_hours
                /\ SameKey(arg.history[i], arg.message))

\* should_send has returned false on account of the second entry of a history
\* whose first entry has another key
C3_Witness ==
    /\ ShouldSendReturned
    /\ Len(arg.history) = 2
    /\ ~SameKey(arg.history[1], arg.message)
    /\ SameKey(arg.history[2], arg.message)
    /\ ~Identical(arg.history[2], arg.message)
    /\ arg.history[2].timestamp = ret.at - time_window_hours
    /\ ret.value = FALSE

AddReturned == arg.op = "add_sent_message" /\ ret # NoRet

\* no list of the cache is empty, and no entry is older than the window
CacheClean(cache, t) ==
    \A k \in DOMAIN cache :
        /\ cache[k] # <<>>
        /\ \A i \in 1..Len(cache[k]) : cache[k][i].timestamp >= t - time_window_hours

\* the cache holds message as the newest entry of its key
HoldsNewest(cache, message) ==
    /\ get_deduplication_key(message) \in DOMAIN cache
    /\ cache[get_deduplication_key(message)]
           [Len(cache[get_deduplication_key(message)])] = message

\* C20, as stated: after add_sent_message the cache holds the message under
\* its key, no entry of that key is older than the window, and no key maps to
\* an empty list.
C20_AsStated ==
    AddReturned => HoldsNewest(ret.value, arg.message) /\ CacheClean(ret.value, ret.at)

\* C20, amended: after add_sent_message no entry of the cache is older than
\* the window and no key maps to an empty list; the cache holds the message
\* as the newest entry of its key when the message's timestamp is inside the
\* window (>= now - W), and does not hold it when it is older.
C20_RecordThenEvict ==
    AddReturned =>
        /\ CacheClean(ret.value, ret.at)
        /\ IF arg.message.timestamp >= ret.at - time_window_hours
           THEN HoldsNewest(ret.value, arg.message)
           ELSE \A k \in DOMAIN ret.value :
                    \A i \in 1..Len(ret.value[k]) : ret.value[k][i] # arg.message

\* a message older than the window was recorded and evicted at once, with
\* the other entries of its key
C20_Witness ==
    /\ AddReturned
    /\ arg.message.timestamp < ret.at - time_window_hours
    /\ get_deduplication_key(arg.message) \in DOMAIN arg.cache
    /\ get_deduplication_key(arg.message) \notin DOMAIN ret.value
    /\ ret.value # <<>>

\* a and b are the same character, or the two cases of one letter
SameLetter(a, b) ==
    a = b \/ \E i \in 1..26 : {a, b} = {Uppers[i], Lowers[i]}

EqualIgnoringCase(s, t) ==
    Len(s) = Len(t) /\ \A i \in 1..Len(s) : SameLetter(s[i], t[i])

\* s[i..j] is s without its leading and trailing whitespace
IsTrim(s, i, j) ==
    /\ \A k \in 1..(i - 1) : s[k] \in Whitespace
    /\ \A k \in (j + 1)..Len(s) : s[k] \in Whitespace
    /\ i <= j => (s[i] \notin Whitespace /\ s[j] \notin Whitespace)

EqualAfterTrim(s, t) ==
    \E i \in 1..(Len(s) + 1), j \in 0..Len(s), k \in 1..(Len(t) + 1), l \in 0..Len(t) :
        /\ IsTrim(s, i, j)
        /\ IsTrim(t, k, l)
        /\ SubSeq(s, i, j) = SubSeq(t, k, l)

KeyPrecondition(m1, m2) ==
    /\ EqualAfterTrim(m1.content, m2.content)
    /\ EqualIgnoringCase(m1.recipient.s, m2.recipient.s)
    /\ EqualIgnoringCase(m1.channel, m2.channel)
    /\ EqualIgnoringCase(m1.template, m2.template)

\* C10: two messages whose content is equal after trimming and whose
\* recipient, channel and template are equal ignoring case have the same
\* dedup key, whatever their timestamps, event ids and metadata.
C10_EqualKeys ==
    (arg.op = "keys" /\ ret # NoRet /\ KeyPrecondition(arg.m1, arg.m2))
        => ret.key1 = ret.key2

\* the keys of two messages that differ in every field, but in content only
\* by surrounding whitespace and in the other key fields only by case
C10_Witness ==
    /\ arg.op = "keys" /\ ret # NoRet
    /\ KeyPrecondition(arg.m1, arg.m2)
    /\ arg.m1.content # arg.m2.content
    /\ arg.m1.recipient # arg.m2.recipient
    /\ arg.m1.channel # arg.m2.channel
    /\ arg.m1.template # arg.m2.template
    /\ arg.m1.timestamp # arg.m2.timestamp
    /\ arg.m1.event_id # arg.m2.event_id
    /\ arg.m1.metadata # arg.m2.metadata
    /\ ret.key1 = ret.key2


(***************************************************************************)
(* The registry's pipeline.                                                *)
(***************************************************************************)
Last(q) == q[Len(q)]

\* the pair with log entry b of caller w was suppressed: a skip, and no send
Skipped(r, b) ==
    /\ ~r.success
    /\ r.message = SkippedText
    /\ r.error = NoError
    /\ "send" \notin b.calls

\* the messages sent successfully for the event and configuration of the j-th
\* pair of caller w: earlier in the call, or in the call before it
SentBefore(w, j) ==
    LET b == log[w][j]
        event == frame[w].events[b.ev_i]
    IN  {log[w][i].message : i \in {i \in 1..(j - 1) :
              /\ results[w][i].success
              /\ log[w][i].config = b.config
              /\ frame[w].events[log[w][i].ev_i] = event}}
        \cup {prev[n].message : n \in {n \in DOMAIN prev :
              prev[n].config = b.config /\ prev[n].event = event}}

\* C1: an event processed through a content_based configuration after it was
\* sent successfully through that configuration, earlier in the batch or in
\* the call before, and within the window of that message, is skipped: its
\* Result has success false, the skip text and no error, and the channel's
\* send is not invoked for it, so the two passes give one success, one skip
\* and one send.
C1_SecondSuppressed ==
    \A j \in DOMAIN log[1] :
        (/\ log[1][j].config.deduplication_policy = s_content_based
         /\ \E m \in SentBefore(1, j) :
               results[1][j].timestamp - m.timestamp <= time_window_hours)
        => Skipped(results[1][j], log[1][j])

C1_Witness ==
    /\ pc[1] = "done"
    /\ \E n \in DOMAIN prev, j \in DOMAIN log[1] :
          /\ prev[n].config = log[1][j].config
          /\ prev[n].event = frame[1].events[log[1][j].ev_i]
          /\ prev[n].config.deduplication_policy = s_content_based
          /\ Skipped(results[1][j], log[1][j])
          /\ sent_messages = <<prev[n].message>>

\* C4: a step that ends a pair with a success Result appends that pair's
\* Message to History, a step that ends a pair with a failure or a skip leaves
\* History as it is, and no other step of process changes History.
C4_HistoryIffSuccess ==
    [][IF Len(results'[1]) = Len(results[1]) + 1
       THEN sent_messages' = IF Last(results'[1]).success
                             THEN Append(sent_messages, Last(log'[1]).message)
                             ELSE sent_messages
       ELSE sent_messages' = sent_messages \/ ClearSentMessages]_vars

C4_Witness ==
    /\ pc[1] = "done"
    /\ \E i, j \in DOMAIN results[1] :
          /\ results[1][i].success
          /\ ~results[1][j].success
          /\ sent_messages = <<log[1][i].message>>

\* the pairs worker w has finished for event e_i and configuration config
PairsFor(w, e_i, config) ==
    {j \in DOMAIN log[w] : log[w][j].ev_i = e_i /\ log[w][j].config = config}

\* every (event, matching configuration) pair of the call has one Result
OneResultEach(w) ==
    /\ Len(results[w]) = Len(log[w])
    /\ \A e_i \in DOMAIN frame[w].events, k \in DOMAIN configurations :
          configurations[k].config.event_type = frame[w].events[e_i].event_type
          => Cardinality(PairsFor(w, e_i, configurations[k].config)) = 1

\* only a step that ends a pair with a success Result changes History or the cache
OnlySuccessChanges ==
    (sent_messages' # sent_messages \/ sent_messages_cache' # sent_messages_cache)
    => \/ ClearSentMessages
       \/ /\ Len(results'[1]) = Len(results[1]) + 1
          /\ Last(results'[1]).success

\* C6: when process returns, every (event, matching configuration) pair has
\* exactly one Result, whatever step failed for other pairs, and the steps of
\* a pair that fails change neither History nor the cache, so the other pairs
\* run on the state they would have found without it.
C6_Isolation == [](pc[1] = "done" => OneResultEach(1)) /\ [][OnlySuccessChanges]_vars

C6_Witness ==
    /\ pc[1] = "done"
    /\ OneResultEach(1)
    /\ \E i, j \in DOMAIN results[1] :
          /\ i < j
          /\ results[1][i].error # NoError
          /\ results[1][j].success

\* the position of a configuration in the registry
position(config) == CHOOSE k \in DOMAIN configurations : configurations[k].config = config

\* the Results of worker w: by event, then by the position of the configuration
Ordered(w) ==
    \A i, j \in DOMAIN log[w] :
        i < j => \/ log[w][i].ev_i < log[w][j].ev_i
                 \/ /\ log[w][i].ev_i = log[w][j].ev_i
                    /\ position(log[w][i].config) < position(log[w][j].config)

\* configurations for email then slack, and one matching event
EmailThenSlack(w) ==
    /\ pc[w] = "done"
    /\ values(configurations) = <<ConfigEmail, ConfigSlack>>
    /\ frame[w].events = <<EventFull>>

\* a key keeps the position it was registered at first; new keys come last
PositionsKept ==
    \A k \in DOMAIN configurations :
        k \in DOMAIN configurations' /\ configurations'[k].key = configurations[k].key

\* C7: the Results of process are in the order of the events and, for one
\* event, in the order its configurations were registered (a position in the
\* registry never changes); configurations for email then slack give, for one
\* matching event, two Results, the email one first.
C7_ResultOrder ==
    /\ [](/\ Ordered(1)
          /\ EmailThenSlack(1) =>
               /\ Len(results[1]) = 2
               /\ results[1][1].channel = s_email
               /\ results[1][2].channel = s_slack)
    /\ [][PositionsKept]_vars

C7_Witness == EmailThenSlack(1) /\ Len(results[1]) = 2

\* the event of the j-th pair of worker w lacks the configuration's recipient field
FieldMissing(w, j) ==
    log[w][j].config.recipient_field
        \notin DOMAIN frame[w].events[log[w][j].ev_i].data

\* C8: a pair whose event lacks the recipient field gets a failure Result
\* whose error names the field, with no render, no policy and no send
\* invoked, and the step that handles it leaves History and the cache alone.
C8_MissingRecipient ==
    /\ [](\A j \in DOMAIN log[1] :
            FieldMissing(1, j) =>
                /\ ~results[1][j].success
                /\ \E k \in DOMAIN results[1][j].error :
                      results[1][j].error[k] = log[1][j].config.recipient_field
                /\ log[1][j].calls = {})
    /\ [][(/\ pc[1] = "begin"
           /\ CurConfig(1).recipient_field \notin DOMAIN CurEvent(1).data
           /\ pc'[1] # "begin" \/ frame'[1] # frame[1])
          => /\ Len(results'[1]) = Len(results[1]) + 1
             /\ sent_messages' = sent_messages
             /\ sent_messages_cache' = sent_messages_cache]_vars

C8_Witness ==
    /\ pc[1] = "done"
    /\ sent_messages # <<>>
    /\ \E j \in DOMAIN log[1] : FieldMissing(1, j)

(***************************************************************************)
(* Concurrent callers.                                                     *)
(***************************************************************************)
\* worker w has passed the check for its message and has not recorded it
PassedUnrecorded(w) ==
    /\ pc[w] \in {"send", "record"}
    /\ "should_send" \in frame[w].calls

\* C5: no two workers are both past the should_send check, with neither
\* message recorded, for messages with the same dedup key.
C5_AsStated ==
    \A w1, w2 \in Workers :
        (w1 # w2 /\ PassedUnrecorded(w1) /\ PassedUnrecorded(w2))
        => get_deduplication_key(frame[w1].message)
               # get_deduplication_key(frame[w2].message)

(***************************************************************************)
(* Registration.                                                           *)
(***************************************************************************)
\* C9: the registry holds one configuration for each (event_type, channel)
\* pair that was registered, the one registered last for it.
C9_AsStated ==
    /\ Len(configurations) = Cardinality(DOMAIN lastReg)
    /\ \A p \in DOMAIN lastReg :
          \E k \in DOMAIN configurations : configurations[k].config = lastReg[p]


(***************************************************************************)
(* Names that resolve to nothing, skips and failed sends.                  *)
(***************************************************************************)
\* worker w took a step of its call
Stepped(w) == pc'[w] # pc[w] \/ frame'[w] # frame[w]

\* the step ends the current pair of worker w
PairEnds(w) == Len(results'[w]) = Len(results[w]) + 1

StateKept ==
    /\ sent_messages' = sent_messages
    /\ sent_messages_cache' = sent_messages_cache

\* C11: a pair whose configuration names a policy that is not known gets a
\* failure Result, and the channel's send is not invoked for it.
C11_AsStated ==
    \A j \in DOMAIN log[1] :
        (/\ log[1][j].config.deduplication_policy # NoPolicy
         /\ ~policy_known(log[1][j].config.deduplication_policy))
        => /\ ~results[1][j].success
           /\ "send" \notin log[1][j].calls

\* the j-th pair of worker w got as far as looking up a channel no name resolves to
ChannelUnresolved(w, j) ==
    /\ channel_interface(log[w][j].config.channel) = ""
    /\ log[w][j].message # NoMessage
    /\ results[w][j].message # SkippedText

\* C12: a pair that gets as far as the channel lookup (recipient found,
\* template rendered, not suppressed) with a channel name that resolves to no
\* channel gets a failure Result whose error names the channel, with no send;
\* the step leaves History and the cache alone and the batch goes on.
C12_UnknownChannel ==
    /\ [](\A j \in DOMAIN log[1] :
            ChannelUnresolved(1, j) =>
                /\ ~results[1][j].success
                /\ Len(results[1][j].error) = 2
                /\ results[1][j].error[2] = log[1][j].config.channel
                /\ "send" \notin log[1][j].calls)
    /\ [][(/\ pc[1] = "send"
           /\ channel_interface(CurConfig(1).channel) = ""
           /\ Stepped(1))
          => /\ PairEnds(1)
             /\ StateKept
             /\ pc'[1] = pc_of(next_pair(frame[1], configurations))]_vars

C12_Witness ==
    /\ pc[1] = "done"
    /\ \E i, j \in DOMAIN log[1] :
          /\ i < j
          /\ ChannelUnresolved(1, i)
          /\ results[1][j].success

\* the policy is about to answer false for the current pair of worker w
Suppresses(w) ==
    /\ pc[w] = "check"
    /\ CurConfig(w).deduplication_policy # NoPolicy
    /\ lower(CurConfig(w).deduplication_policy) = s_content_based
    /\ ~get_raises(services, "ContentBasedDeduplicationPolicy")
    /\ ~key_raises(frame[w].message)
    /\ ~should_send(frame[w].message, sent_messages, now)

\* C13: when should_send returns false for a pair, the pair ends with a
\* Result that has success false, the skip text and no error; the channel's
\* send is not invoked, and History and the cache do not change.
C13_SkipResult ==
    [][(Suppresses(1) /\ Stepped(1))
       => /\ PairEnds(1)
          /\ ~results'[1][Len(results'[1])].success
          /\ results'[1][Len(results'[1])].message = SkippedText
          /\ results'[1][Len(results'[1])].error = NoError
          /\ "send" \notin log'[1][Len(log'[1])].calls
          /\ StateKept]_vars

C13_Witness ==
    /\ pc[1] = "done"
    /\ sent_messages # <<>>
    /\ sent_messages_cache # <<>>
    /\ \E j \in DOMAIN log[1] :
          /\ "should_send" \in log[1][j].calls
          /\ results[1][j].message = SkippedText

\* the j-th pair of worker w ended with a failure Result of the channel's send
SendFailed(w, j) == "send" \in log[w][j].calls /\ ~results[w][j].success

\* C14: the step in which the channel's send returns a failure Result ends
\* the pair with that Result and changes neither History nor the cache; a
\* pair is suppressed only on account of a History entry with its key inside
\* the window, so never on account of a send that failed.
C14_FailedSend ==
    /\ [][(/\ PairEnds(1)
           /\ "send" \in log'[1][Len(log'[1])].calls
           /\ ~results'[1][Len(results'[1])].success)
          => pc[1] = "send" /\ StateKept]_vars
    /\ [](\A j \in DOMAIN log[1] :
            results[1][j].message = SkippedText
            => \E i \in DOMAIN sent_messages :
                  /\ SameKey(sent_messages[i], log[1][j].message)
                  /\ sent_messages[i].timestamp
                        >= results[1][j].timestamp - time_window_hours)

\* the same event twice through a content_based configuration: the first
\* send fails, the second one is not suppressed and succeeds
C14_Witness ==
    /\ pc[1] = "done"
    /\ Len(log[1]) = 2
    /\ log[1][1].config = log[1][2].config
    /\ log[1][1].config.deduplication_policy = s_content_based
    /\ frame[1].events[1] = frame[1].events[2]
    /\ SendFailed(1, 1)
    /\ results[1][2].success

\* C15: with the container of the end-to-end test and one configuration for
\* channel email without a policy, one matching event with a valid address
\* gives one Result with success true, channel email and the event's address.
C15_AsStated ==
    (/\ services = TestWiring
     /\ pc[1] = "done"
     /\ values(configurations) = <<ConfigPlain>>
     /\ frame[1].events = <<EventFull>>)
    => /\ Len(results[1]) = 1
       /\ results[1][1].success
       /\ results[1][1].channel = s_email
       /\ results[1][1].recipient = EventFull.data["email"]

\* C17: get_configurations(event_type) returns the configurations registered
\* at the call whose event_type equals it, for every event_type, the empty
\* one included.
C17_AsStated ==
    ret.op = "get_configurations"
    => ret.value = SelectSeq(ret.registered, LAMBDA c : c.event_type = arg.event_type)

\* C18: no configuration with an empty event_type is ever in the registry.
C18_AsStated ==
    \A k \in DOMAIN configurations : configurations[k].config.event_type # <<>>

IsPrefix(a, b) ==
    /\ Len(a) <= Len(b)
    /\ \A i \in 1..Len(a) : a[i] = b[i]

\* C19: the History before a step is a prefix of the History after it.
C19_AsStated == [][IsPrefix(sent_messages, sent_messages')]_vars

(***************************************************************************)
(* Event sources: what create_event builds.                                *)
(***************************************************************************)
\* EventSource.create_event: the event carries its source and the time it
\* was created at
create_event(event_type, data, event_id, source, t) ==
    [event_type |-> event_type, data |-> data, event_id |-> event_id,
     source |-> source, timestamp |-> t]

\* an option that was not given (None), or given as an empty string: both falsy
NoOption == <<>>

(***************************************************************************)
(* ScheduledEventSource (src/src/events/scheduled.py).                     *)
(***************************************************************************)
\* timedelta(hours=1), timedelta(days=1), timedelta(weeks=1), in hours
hours_hourly == 1
hours_daily == 24
hours_weekly == 168

MaxQueries == 2       \* most queries registered at a time

\* the instants at which the scheduled source is called
Instants == {0, hours_hourly, hours_daily, hours_weekly}

\* 'last_run': None, or the time of the last run
NeverRun == [ran |-> FALSE, at |-> 0]
RanAt(t) == [ran |-> TRUE, at |-> t]

Query(name, query, event_type, schedule, last_run) ==
    [name |-> name, query |-> query, event_type |-> event_type,
     schedule |-> schedule, last_run |-> last_run]

\* the queries that get registered: one per named schedule, and one whose
\* schedule is no named one
QueryPool ==
    {Query("q_h", "SELECT * FROM test", et_a, "hourly", NeverRun),
     Query("q_d", "SELECT * FROM daily_stats", et_signup, "daily", NeverRun),
     Query("q_w", "SELECT * FROM test", et_signup, "weekly", NeverRun),
     Query("q_m", "SELECT * FROM test", et_a, "monthly", NeverRun)}

\* result rows
RowOne == ("id" :> IntVal(<<"1">>)) @@ ("name" :> v_name)
RowTwo == ("id" :> IntVal(<<"2">>)) @@ ("name" :> v_name)
RowStats == ("id" :> IntVal(<<"1">>)) @@ ("total_users" :> IntVal(<<"1","2","5","0">>))
RowActivity == ("id" :> IntVal(<<"1">>)) @@ ("user_id" :> IntVal(<<"1","2","3","4","5">>))

\* the data fed with set_mock_data
MockRows == <<RowOne, RowTwo>>
MockNames == {"q_h", "q_m"}

\* the position of the query called name in the dict, 0 if there is none
query_index(qs, name) ==
    IF \E i \in 1..Len(qs) : qs[i].name = name
    THEN CHOOSE i \in 1..Len(qs) : qs[i].name = name
    ELSE 0

\* self.queries[name] = {...}: a new name goes last, a known name keeps its
\* position; 'last_run' is None either way
register_query(qs, q) ==
    IF query_index(qs, q.name) = 0
    THEN Append(qs, q)
    ELSE [qs EXCEPT ![query_index(qs, q.name)] = q]

\* variant: a query that ran is due only after more than its interval
should_run_query_late(q, t) ==
    IF ~q.last_run.ran THEN TRUE
    ELSE CASE q.schedule = "daily" -> t - q.last_run.at > hours_daily
           [] q.schedule = "hourly" -> t - q.last_run.at > hours_hourly
           [] q.schedule = "weekly" -> t - q.last_run.at > hours_weekly
           [] OTHER -> TRUE

\* variant: a schedule that is no named one runs once
should_run_query_once(q, t) ==
    IF ~q.last_run.ran THEN TRUE
    ELSE CASE q.schedule = "daily" -> t - q.last_run.at >= hours_daily
           [] q.schedule = "hourly" -> t - q.last_run.at >= hours_hourly
           [] q.schedule = "weekly" -> t - q.last_run.at >= hours_weekly
           [] OTHER -> FALSE

\* _should_run_query
should_run_query(q, t) ==
    IF ~q.last_run.ran THEN TRUE
    ELSE CASE q.schedule = "daily" -> t - q.last_run.at >= hours_daily
           [] q.schedule = "hourly" -> t - q.last_run.at >= hours_hourly
           [] q.schedule = "weekly" -> t - q.last_run.at >= hours_weekly
           [] OTHER -> TRUE

\* _mock_query_execution: by what the query text mentions
mock_query_execution(query) ==
    CASE query = "SELECT * FROM daily_stats" -> <<RowStats>>
      [] query = "SELECT * FROM user_activity" -> <<RowActivity>>
      [] OTHER -> <<>>

\* the rows a run of q gives: the mock data of its name, or the mocked execution
query_results(q, mock) ==
    IF q.name \in DOMAIN mock THEN mock[q.name] ELSE mock_query_execution(q.query)

\* f"{query_name}_{result.get('id', datetime.now().timestamp())}"
scheduled_event_id(name, row, t) ==
    IF "id" \in DOMAIN row THEN <<name, row["id"]>>
    ELSE <<name, [kind |-> "float", at |-> t]>>

\* the events of the rows, in row order
events_of_rows(q, rows, t) ==
    [i \in 1..Len(rows) |->
        create_event(q.event_type, rows[i], scheduled_event_id(q.name, rows[i], t),
                     "scheduled", t)]

\* _execute_query for the query at position i: its events, and the dict after it
execute_query(qs, mock, i, t) ==
    IF ~should_run_query(qs[i], t)
    THEN [events |-> <<>>, queries |-> qs]
    ELSE [events |-> events_of_rows(qs[i], query_results(qs[i], mock), t),
          queries |-> [qs EXCEPT ![i].last_run = RanAt(t)]]

\* "for name in self.queries": the queries from position i on, one after another
RECURSIVE execute_all(_, _, _, _)
execute_all(qs, mock, i, t) ==
    IF i > Len(qs) THEN [events |-> <<>>, queries |-> qs]
    ELSE LET one == execute_query(qs, mock, i, t)
             rest == execute_all(one.queries, mock, i + 1, t)
         IN  [events |-> one.events \o rest.events, queries |-> rest.queries]

\* variant: a query of another event type than the one asked for is not stamped
scheduled_get_events_matching(qs, mock, query_name, event_type, t) ==
    LET run == IF query_name # ""
               THEN IF query_index(qs, query_name) # 0
                    THEN execute_query(qs, mock, query_index(qs, query_name), t)
                    ELSE [events |-> <<>>, queries |-> qs]
               ELSE execute_all(qs, mock, 1, t)
    IN  [events |-> IF event_type # NoOption
                    THEN SelectSeq(run.events, LAMBDA e : e.event_type = event_type)
                    ELSE run.events,
         queries |-> [i \in DOMAIN qs |->
                         IF event_type # NoOption /\ qs[i].event_type # event_type
                         THEN qs[i] ELSE run.queries[i]]]

\* ScheduledEventSource.get_events(query_name=..., event_type=...)
scheduled_get_events(qs, mock, query_name, event_type, t) ==
    LET run == IF query_name # ""
               THEN IF query_index(qs, query_name) # 0
                    THEN execute_query(qs, mock, query_index(qs, query_name), t)
                    ELSE [events |-> <<>>, queries |-> qs]
               ELSE execute_all(qs, mock, 1, t)
    IN  [events |-> IF event_type # NoOption
                    THEN SelectSeq(run.events, LAMBDA e : e.event_type = event_type)
                    ELSE run.events,
         queries |-> run.queries]

\* no registry is in use
NoRegistry ==
    /\ services = {}
    /\ configurations = <<>>
    /\ sent_messages = <<>>
    /\ sent_messages_cache = <<>>
    /\ pc = [w \in Workers |-> "idle"]
    /\ frame = [w \in Workers |-> NoFrame]
    /\ results = [w \in Workers |-> <<>>]
    /\ log = [w \in Workers |-> <<>>]
    /\ lastReg = <<>>
    /\ prev = <<>>

\* a new ScheduledEventSource
SchedInit ==
    /\ now = 0
    /\ queries = <<>>
    /\ mock_data = <<>>
    /\ events_buffer = <<>>
    /\ arg = NoRet
    /\ ret = NoRet
    /\ NoRegistry

\* time passes, up to one of the instants
Pass ==
    /\ \E t \in Instants : t > now /\ now' = t
    /\ arg' = NoRet
    /\ ret' = NoRet
    /\ UNCHANGED <<shared, worker, lastReg, prev, sources>>

\* source.register_query(name, query, event_type, schedule)
RegisterQuery(q) ==
    /\ Len(register_query(queries, q)) <= MaxQueries
    /\ queries' = register_query(queries, q)
    /\ arg' = NoRet
    /\ ret' = NoRet
    /\ UNCHANGED <<now, shared, worker, lastReg, prev, mock_data, events_buffer>>

\* source.set_mock_data(query_name, data)
SetMockData(name) ==
    /\ name \notin DOMAIN mock_data
    /\ mock_data' = [n \in DOMAIN mock_data \cup {name} |-> MockRows]
    /\ arg' = NoRet
    /\ ret' = NoRet
    /\ UNCHANGED <<now, shared, worker, lastReg, prev, queries, events_buffer>>

\* source.get_events(query_name=..., event_type=...); ret keeps the dict the
\* call found
ScheduledGetEvents(query_name, event_type) ==
    /\ arg' = [op |-> "scheduled_get_events", query_name |-> query_name,
               event_type |-> event_type]
    /\ ret' = [op |-> "scheduled_get_events", at |-> now, found |-> queries,
               value |-> scheduled_get_events(queries, mock_data, query_name,
                                              event_type, now).events]
    /\ queries' = scheduled_get_events(queries, mock_data, query_name, event_type,
                                       now).queries
    /\ UNCHANGED <<now, shared, worker, lastReg, prev, mock_data, events_buffer>>

\* the names and event types get_events is asked for
QueryNames == {"", "q_h", "q_d", "q_w", "q_m"}
EventTypeOptions == {NoOption, et_a}

SchedNext ==
    \/ Pass
    \/ \E q \in QueryPool : RegisterQuery(q)
    \/ \E name \in MockNames : SetMockData(name)
    \/ \E query_name \in QueryNames, event_type \in EventTypeOptions :
          ScheduledGetEvents(query_name, event_type)

SchedSpec == SchedInit /\ [][SchedNext]_vars

(***************************************************************************)
(* RealtimeEventSource (src/src/events/realtime.py).                       *)
(***************************************************************************)
MaxBuffer == 2        \* most records in the buffer

\* a dict as a value: the data of an event, or a raw item of add_events
DictVal(d) == [kind |-> "dict", s |-> d]

\* isinstance(v, dict)
is_dict(v) == v.kind = "dict"

\* the record add_event puts in the buffer
event_data(event_type, data, event_id) ==
    [event_type |-> event_type, data |-> data, event_id |-> event_id]

\* validate_event_data, for a record of the buffer: it is a dict with the key
\* 'event_type'; what is left is isinstance(event_data.get('data'), dict)
validate_event_data(record) == is_dict(record.data)

\* variant: the last n
first_n_last(q, n) == SubSeq(q, Len(q) - n + 1, Len(q))

\* q[:n], for n > 0
first_n(q, n) == SubSeq(q, 1, n)

\* "if limit and limit > 0: events_data = events_data[:limit]"
apply_limit(q, limit) ==
    IF limit > 0 /\ limit < Len(q) THEN first_n(q, limit) ELSE q

\* variant: a drain takes the first record only
after_read_first(buffer, clear_buffer) ==
    IF clear_buffer /\ buffer # <<>> THEN Tail(buffer) ELSE buffer

\* variant: the buffer is cleared by every read
after_read_drained(buffer, clear_buffer) == <<>>

\* "if clear_buffer: self.events_buffer.clear()"
after_read(buffer, clear_buffer) == IF clear_buffer THEN <<>> ELSE buffer

\* the events of the records that validate, in the order of the records
RECURSIVE convert(_, _)
convert(records, t) ==
    IF records = <<>> THEN <<>>
    ELSE (IF validate_event_data(Head(records))
          THEN <<create_event(Head(records).event_type, Head(records).data.s,
                              Head(records).event_id, "realtime", t)>>
          ELSE <<>>) \o convert(Tail(records), t)

\* RealtimeEventSource.get_events(event_type=..., limit=...), the events
realtime_get_events(buffer, event_type, limit, t) ==
    LET events_data == IF event_type # NoOption
                       THEN SelectSeq(buffer, LAMBDA r : r.event_type = event_type)
                       ELSE buffer
    IN  convert(apply_limit(events_data, limit), t)

\* add_event(event_type, data, event_id)
add_event(buffer, event_type, data, event_id) ==
    Append(buffer, event_data(event_type, data, event_id))

\* event.get(key, default), for a raw item that is a dict
item_get(item, key, default) ==
    IF key \in DOMAIN item.s THEN item.s[key] ELSE default

s_unknown == <<"u","n","k","n","o","w","n">>

\* add_events(events): an item that is no dict is passed over; of a dict the
\* missing 'event_type' is 'unknown' and the missing 'data' is the dict itself
RECURSIVE add_events(_, _)
add_events(buffer, items) ==
    IF items = <<>> THEN buffer
    ELSE IF ~is_dict(Head(items)) THEN add_events(buffer, Tail(items))
    ELSE add_events(add_event(buffer,
                              item_get(Head(items), "event_type", s_unknown),
                              item_get(Head(items), "data", Head(items)),
                              item_get(Head(items), "event_id", "None")),
                    Tail(items))

\* what is pushed with add_event: two events, and one whose data is no mapping
d_name == DictVal("name" :> v_name)
PushPool ==
    {event_data(et_a, d_name, "e1"), event_data(et_signup, d_name, "e2"),
     event_data(et_a, NoneVal, "e3")}

\* what is pushed with add_events: a list with an item that is no dict and a
\* dict without 'event_type' and 'data'; a list with a dict whose data is a str
ItemLists ==
    {<<StrVal(<<"x">>), DictVal("name" :> v_name)>>,
     <<DictVal(("event_type" :> et_a) @@ ("data" :> StrVal(<<"x">>)))>>}

\* the options of get_events: limit 0 stands for no limit (None or 0)
Limits == {-1, 0, 1}

\* a new RealtimeEventSource
BufferInit ==
    /\ now = 0
    /\ queries = <<>>
    /\ mock_data = <<>>
    /\ events_buffer = <<>>
    /\ arg = NoRet
    /\ ret = NoRet
    /\ NoRegistry

\* source.add_event(event_type, data, event_id)
AddEvent(r) ==
    /\ Len(events_buffer) < MaxBuffer
    /\ events_buffer' = add_event(events_buffer, r.event_type, r.data, r.event_id)
    /\ arg' = NoRet
    /\ ret' = NoRet
    /\ UNCHANGED <<now, shared, worker, lastReg, prev, queries, mock_data>>

\* source.add_events(events)
AddEvents(items) ==
    /\ Len(add_events(events_buffer, items)) <= MaxBuffer
    /\ events_buffer' = add_events(events_buffer, items)
    /\ arg' = NoRet
    /\ ret' = NoRet
    /\ UNCHANGED <<now, shared, worker, lastReg, prev, queries, mock_data>>

\* source.get_events(event_type=..., limit=..., clear_buffer=...); ret keeps
\* the buffer the call found
RealtimeGetEvents(event_type, limit, clear_buffer) ==
    /\ arg' = [op |-> "realtime_get_events", event_type |-> event_type,
               limit |-> limit, clear_buffer |-> clear_buffer]
    /\ ret' = [op |-> "realtime_get_events", at |-> now, found |-> events_buffer,
               value |-> realtime_get_events(events_buffer, event_type, limit, now)]
    /\ events_buffer' = after_read(events_buffer, clear_buffer)
    /\ UNCHANGED <<now, shared, worker, lastReg, prev, queries, mock_data>>

BufferNext ==
    \/ Tick
    \/ \E r \in PushPool : AddEvent(r)
    \/ \E items \in ItemLists : AddEvents(items)
    \/ \E event_type \in EventTypeOptions, limit \in Limits, clear_buffer \in BOOLEAN :
          RealtimeGetEvents(event_type, limit, clear_buffer)

BufferSpec == BufferInit /\ [][BufferNext]_vars

(***************************************************************************)
(* One policy instance and its cache.                                      *)
(***************************************************************************)
\* variant: a call that reads the cache cleans it up first
cache_after_read_cleaned(cache, t) == cleanup_old_messages(cache, t)

\* self.sent_messages_cache after should_send, get_deduplication_key or
\* get_duplicate_count: none of them assigns to it
cache_after_read(cache, t) == cache

\* clear_cache()
clear_cache(cache) == <<>>

\* the messages a caller has at hand: none is from the future
MessagesBy(t) == {m \in PolicyMessages : m.timestamp <= t}

\* ContentBasedDeduplicationPolicy(): an empty cache
EvictInit ==
    /\ now = 0
    /\ arg = NoRet
    /\ ret = NoRet
    /\ NoSources
    /\ NoRegistry

\* policy.should_send(message, policy.get_all_sent_messages())
PolicyShouldSend(message) ==
    /\ ret' = [op |-> "should_send",
               value |-> should_send(message,
                                     get_all_sent_messages(sent_messages_cache), now)]
    /\ sent_messages_cache' = cache_after_read(sent_messages_cache, now)
    /\ UNCHANGED <<now, sources, services, configurations, sent_messages, worker,
                   lastReg, prev, arg>>

\* policy.get_deduplication_key(message)
PolicyGetDeduplicationKey(message) ==
    /\ ret' = [op |-> "get_deduplication_key", value |-> get_deduplication_key(message)]
    /\ sent_messages_cache' = cache_after_read(sent_messages_cache, now)
    /\ UNCHANGED <<now, sources, services, configurations, sent_messages, worker,
                   lastReg, prev, arg>>

\* policy.get_duplicate_count(message)
PolicyGetDuplicateCount(message) ==
    /\ ret' = [op |-> "get_duplicate_count",
               value |-> get_duplicate_count(sent_messages_cache, message)]
    /\ sent_messages_cache' = cache_after_read(sent_messages_cache, now)
    /\ UNCHANGED <<now, sources, services, configurations, sent_messages, worker,
                   lastReg, prev, arg>>

\* policy.add_sent_message(message)
PolicyAddSentMessage(message) ==
    /\ cache_size(sent_messages_cache) < MaxSent
    /\ ret' = [op |-> "add_sent_message", value |-> NoneVal]
    /\ sent_messages_cache' = add_sent_message(sent_messages_cache, message, now)
    /\ UNCHANGED <<now, sources, services, configurations, sent_messages, worker,
                   lastReg, prev, arg>>

\* policy.clear_cache()
PolicyClearCache ==
    /\ sent_messages_cache # <<>>
    /\ ret' = [op |-> "clear_cache", value |-> NoneVal]
    /\ sent_messages_cache' = clear_cache(sent_messages_cache)
    /\ UNCHANGED <<now, sources, services, configurations, sent_messages, worker,
                   lastReg, prev, arg>>

EvictNext ==
    \/ Tick
    \/ \E message \in MessagesBy(now) : PolicyShouldSend(message)
    \/ \E message \in MessagesBy(now) : PolicyGetDeduplicationKey(message)
    \/ \E message \in MessagesBy(now) : PolicyGetDuplicateCount(message)
    \/ \E message \in MessagesBy(now) : PolicyAddSentMessage(message)
    \/ PolicyClearCache

EvictSpec == EvictInit /\ [][EvictNext]_vars

(***************************************************************************)
(* Keys of messages whose fields hold the delimiter.                       *)
(***************************************************************************)
DelimContents == {<<"a">>, <<"a","|","b">>, <<"a","|">>}
DelimRecipients == {StrVal(<<"c">>), StrVal(<<"b","|","c">>), StrVal(<<"|","c">>)}

DelimMessages ==
    {Message(c, r, s_email, <<"t">>, "id1", NoMetadata, 0) :
        c \in DelimContents, r \in DelimRecipients}

DelimArgs ==
    {[op |-> "keys", m1 |-> m1, m2 |-> m2] : m1 \in DelimMessages, m2 \in DelimMessages}

\* a policy instance and two messages to take the keys of
DelimInit ==
    /\ now \in 0..MaxTime
    /\ arg \in DelimArgs
    /\ ret = NoRet
    /\ NoSources
    /\ NoRegistry

DelimNext == CallKeys

DelimSpec == DelimInit /\ [][DelimNext]_vars

(***************************************************************************)
(* Two threads in add_sent_message of one policy instance, one step per    *)
(* access to the cache.                                                    *)
(***************************************************************************)
\* the message thread w records, and a message recorded long before
AddedBy(w, t) ==
    Message(<<"x">>, StrVal(r_user), s_email, <<"t">>,
            IF w = 1 THEN "id1" ELSE "id2", NoMetadata, t)
OldMessage == Message(<<"y">>, StrVal(r_user), s_email, <<"t">>, "id3", NoMetadata, 0)

\* the locals of a thread in add_sent_message and _cleanup_old_messages
Locals(message, key, keys, recent) ==
    [message |-> message, key |-> key, keys |-> keys, recent |-> recent]

\* self.sent_messages_cache[key] = value
cache_store(cache, key, value) ==
    [k \in DOMAIN cache \cup {key} |-> IF k = key THEN value ELSE cache[k]]

\* del self.sent_messages_cache[key]
cache_del(cache, key) == [k \in DOMAIN cache \ {key} |-> cache[k]]

\* list(self.sent_messages_cache.keys()): insertion order, the key of the old
\* message before the key the threads insert
cache_keys(cache) ==
    LET old == get_deduplication_key(OldMessage)
        rest == DOMAIN cache \ {old}
    IN  (IF old \in DOMAIN cache THEN <<old>> ELSE <<>>)
        \o (IF rest = {} THEN <<>> ELSE <<CHOOSE k \in rest : TRUE>>)

\* a policy whose cache is empty or holds the old message, and two threads
\* that have entered add_sent_message and computed the key
RaceInit ==
    /\ now = MaxTime
    /\ services = {}
    /\ configurations = <<>>
    /\ sent_messages = <<>>
    /\ sent_messages_cache \in
          {<<>>, cache_store(<<>>, get_deduplication_key(OldMessage), <<OldMessage>>)}
    /\ pc = [w \in Workers |-> "add_check"]
    /\ frame = [w \in Workers |->
                  Locals(AddedBy(w, now), get_deduplication_key(AddedBy(w, now)),
                         <<>>, <<>>)]
    /\ results = [w \in Workers |-> <<>>]
    /\ log = [w \in Workers |-> <<>>]
    /\ lastReg = <<>>
    /\ prev = <<>>
    /\ arg = NoRet
    /\ ret = NoRet
    /\ NoSources

\* if key not in self.sent_messages_cache
AddCheck(w) ==
    /\ pc[w] = "add_check"
    /\ pc' = [pc EXCEPT ![w] = IF frame[w].key \in DOMAIN sent_messages_cache
                               THEN "add_append" ELSE "add_create"]
    /\ UNCHANGED <<now, sources, shared, frame, results, log, lastReg, prev, arg, ret>>

\* self.sent_messages_cache[key] = []
AddCreate(w) ==
    /\ pc[w] = "add_create"
    /\ sent_messages_cache' = cache_store(sent_messages_cache, frame[w].key, <<>>)
    /\ pc' = [pc EXCEPT ![w] = "add_append"]
    /\ UNCHANGED <<now, sources, services, configurations, sent_messages, frame, results,
                   log, lastReg, prev, arg, ret>>

\* self.sent_messages_cache[key].append(message): KeyError when the key is gone
AddAppend(w) ==
    /\ pc[w] = "add_append"
    /\ IF frame[w].key \in DOMAIN sent_messages_cache
       THEN /\ sent_messages_cache' =
                  cache_store(sent_messages_cache, frame[w].key,
                              Append(sent_messages_cache[frame[w].key], frame[w].message))
            /\ pc' = [pc EXCEPT ![w] = "cleanup_keys"]
       ELSE /\ pc' = [pc EXCEPT ![w] = "raised"]
            /\ UNCHANGED sent_messages_cache
    /\ UNCHANGED <<now, sources, services, configurations, sent_messages, frame, results,
                   log, lastReg, prev, arg, ret>>

\* for key in list(self.sent_messages_cache.keys())
CleanupKeys(w) ==
    /\ pc[w] = "cleanup_keys"
    /\ frame' = [frame EXCEPT ![w].keys = cache_keys(sent_messages_cache)]
    /\ pc' = [pc EXCEPT ![w] = IF cache_keys(sent_messages_cache) = <<>>
                               THEN "returned" ELSE "cleanup_read"]
    /\ UNCHANGED <<now, sources, shared, results, log, lastReg, prev, arg, ret>>

\* messages = self.sent_messages_cache[key] and the list of the recent ones:
\* KeyError when the key is gone
CleanupRead(w) ==
    /\ pc[w] = "cleanup_read"
    /\ LET key == Head(frame[w].keys)
       IN  IF key \in DOMAIN sent_messages_cache
           THEN /\ frame' = [frame EXCEPT ![w].recent =
                                SelectSeq(sent_messages_cache[key],
                                          LAMBDA msg : msg.timestamp
                                                          >= now - time_window_hours)]
                /\ pc' = [pc EXCEPT ![w] = "cleanup_write"]
           ELSE /\ pc' = [pc EXCEPT ![w] = "raised"]
                /\ UNCHANGED frame
    /\ UNCHANGED <<now, sources, shared, results, log, lastReg, prev, arg, ret>>

\* self.sent_messages_cache[key] = recent_messages, or del when there is none:
\* KeyError when the key to delete is gone
CleanupWrite(w) ==
    /\ pc[w] = "cleanup_write"
    /\ LET key == Head(frame[w].keys)
           rest == Tail(frame[w].keys)
           gone == frame[w].recent = <<>> /\ key \notin DOMAIN sent_messages_cache
       IN  /\ sent_messages_cache' =
                 IF frame[w].recent # <<>>
                 THEN cache_store(sent_messages_cache, key, frame[w].recent)
                 ELSE cache_del(sent_messages_cache, key)
           /\ frame' = [frame EXCEPT ![w].keys = rest, ![w].recent = <<>>]
           /\ pc' = [pc EXCEPT ![w] = IF gone THEN "raised"
                                      ELSE IF rest = <<>> THEN "returned"
                                      ELSE "cleanup_read"]
    /\ UNCHANGED <<now, sources, services, configurations, sent_messages, results, log,
                   lastReg, prev, arg, ret>>

RaceNext ==
    \E w \in Workers :
        \/ AddCheck(w)
        \/ AddCreate(w)
        \/ AddAppend(w)
        \/ CleanupKeys(w)
        \/ CleanupRead(w)
        \/ CleanupWrite(w)

RaceSpec == RaceInit /\ [][RaceNext]_vars

(***************************************************************************)
(* Direct calls on the channels.                                           *)
(***************************************************************************)
\* the recipients send is called with
SendRecipients ==
    {StrVal(r_user), StrVal(r_bad), StrVal(r_chan), StrVal(<<"@","u">>),
     StrVal(<<"u","@","x">>), StrVal(<<"u",".","v","@","x">>), StrVal(<<>>),
     NoneVal, IntVal(<<"5">>)}

SendArgs ==
    {[op |-> "send", channel |-> ch, recipient |-> r, written |-> wr] :
        ch \in {"EmailChannel", "SlackChannel"}, r \in SendRecipients, wr \in BOOLEAN}

\* a channel, the arguments of a send, and the time of the call
ChannelInit ==
    /\ now \in 0..MaxTime
    /\ arg \in SendArgs
    /\ ret = NoRet
    /\ NoSources
    /\ NoRegistry

\* channel.send(message, recipient)
CallSend ==
    /\ arg.op = "send"
    /\ ret = NoRet
    /\ ret' = IF arg.channel = "EmailChannel"
              THEN [op |-> "send",
                    result |-> email_send(<<"m">>, arg.recipient, arg.written, now),
                    delivered |-> email_delivered(<<"m">>, arg.recipient,
                                                  arg.written, now)]
              ELSE [op |-> "send",
                    result |-> slack_send(<<"m">>, arg.recipient, now),
                    delivered |-> slack_delivered(<<"m">>, arg.recipient, now)]
    /\ UNCHANGED <<now, sources, arg, shared, worker, lastReg, prev>>

ChannelNext == CallSend

ChannelSpec == ChannelInit /\ [][ChannelNext]_vars

(***************************************************************************)
(* The scheduled source.                                                   *)
(***************************************************************************)
ScheduledReturned == ret.op = "scheduled_get_events"

NamedSchedules == {"hourly", "daily", "weekly"}

\* the interval of a named schedule, in hours
Interval(schedule) ==
    CASE schedule = "hourly" -> 1
      [] schedule = "daily" -> 24
      [] schedule = "weekly" -> 7 * 24

\* the query was due at time t
Due(q, t) ==
    \/ ~q.last_run.ran
    \/ q.schedule \notin NamedSchedules
    \/ t - q.last_run.at >= Interval(q.schedule)

\* the positions, in the dict the call found, of the queries it targets
Targets ==
    IF arg.query_name # ""
    THEN {i \in DOMAIN ret.found : ret.found[i].name = arg.query_name}
    ELSE DOMAIN ret.found

\* the event type and the data of the events the call is to return: those of
\* the rows of the targeted queries that were due, query by query, row by row
RECURSIVE RowsDue(_)
RowsDue(i) ==
    IF i > Len(ret.found) THEN <<>>
    ELSE (IF i \in Targets /\ Due(ret.found[i], ret.at)
          THEN [k \in DOMAIN query_results(ret.found[i], mock_data) |->
                   [event_type |-> ret.found[i].event_type,
                    data |-> query_results(ret.found[i], mock_data)[k]]]
          ELSE <<>>) \o RowsDue(i + 1)

\* what is left of RowsDue when the call names an event type
RowsAsked ==
    IF arg.event_type # NoOption
    THEN SelectSeq(RowsDue(1), LAMBDA r : r.event_type = arg.event_type)
    ELSE RowsDue(1)

\* C21: get_events runs the queries it targets that are due (never run, or
\* last run at least the schedule's interval ago: 1 hour, 1 day, 1 week) and
\* no other: a query that runs is stamped last_run = now and gives one Event
\* of its event_type per result row, in row order; a query that is not due
\* gives no event and keeps its last_run, as does a query that is not
\* targeted.  Of the events of the queries that ran, the call returns those
\* of the event type it names, all of them if it names none.
C21_DueStateMachine ==
    ScheduledReturned =>
        /\ Len(queries) = Len(ret.found)
        /\ \A i \in DOMAIN ret.found :
              queries[i] =
                  IF i \in Targets /\ Due(ret.found[i], ret.at)
                  THEN [ret.found[i] EXCEPT !.last_run = RanAt(ret.at)]
                  ELSE ret.found[i]
        /\ Len(ret.value) = Len(RowsAsked)
        /\ \A k \in DOMAIN ret.value :
              /\ ret.value[k].event_type = RowsAsked[k].event_type
              /\ ret.value[k].data = RowsAsked[k].data

\* one call for all queries: an hourly query last run exactly its interval ago
\* runs again and gives its two events, a daily one run an hour ago does not
C21_Witness ==
    /\ ScheduledReturned
    /\ arg.query_name = ""
    /\ \E i, j \in DOMAIN ret.found :
          /\ ret.found[i].schedule = "hourly"
          /\ ret.found[i].last_run = RanAt(ret.at - 1)
          /\ queries[i].last_run = RanAt(ret.at)
          /\ ret.found[j].schedule = "daily"
          /\ ret.found[j].last_run.ran
          /\ queries[j].last_run = ret.found[j].last_run
    /\ Len(ret.value) = 2

\* C22: a query whose schedule is none of hourly, daily, weekly runs at every
\* get_events call that targets it, however recently it ran: it is stamped
\* last_run = now, and a call that names it returns one event per result row
\* (those of the event type the call names, if it names one).
C22_AlwaysDue ==
    ScheduledReturned =>
        \A i \in Targets :
            ret.found[i].schedule \notin NamedSchedules
            => /\ queries[i].last_run = RanAt(ret.at)
               /\ arg.query_name = ret.found[i].name
                  => Len(ret.value) =
                        IF arg.event_type \in {NoOption, ret.found[i].event_type}
                        THEN Len(query_results(ret.found[i], mock_data))
                        ELSE 0

\* a query with the schedule "monthly" that ran at this very instant runs
\* again and returns its events
C22_Witness ==
    /\ ScheduledReturned
    /\ \E i \in Targets :
          /\ ret.found[i].schedule = "monthly"
          /\ arg.query_name = ret.found[i].name
          /\ ret.found[i].last_run = RanAt(ret.at)
    /\ ret.value # <<>>

(***************************************************************************)
(* The manually-fed source.                                                *)
(***************************************************************************)
RealtimeReturned == ret.op = "realtime_get_events"

\* the record has the shape of an event: an event_type and mapping-valued data
ValidShape(r) == r.data.kind = "dict"

\* the records the call asks for: those of the event type it names
Asked ==
    IF arg.event_type # NoOption
    THEN SelectSeq(ret.found, LAMBDA r : r.event_type = arg.event_type)
    ELSE ret.found

\* at most the first arg.limit of q, all of q without a limit
Limited(q) ==
    IF arg.limit > 0 /\ arg.limit < Len(q) THEN [i \in 1..arg.limit |-> q[i]] ELSE q

\* the events are those of the records, one for one and in their order
EventsOf(events, records) ==
    /\ Len(events) = Len(records)
    /\ \A k \in DOMAIN events :
          /\ events[k].event_type = records[k].event_type
          /\ events[k].data = records[k].data.s
          /\ events[k].event_id = records[k].event_id

\* C23: get_events returns the events of the records of valid shape among
\* those it is asked for, as many as the limit allows, as if the malformed
\* records were not in the buffer.
C23_AsStated ==
    RealtimeReturned => EventsOf(ret.value, Limited(SelectSeq(Asked, ValidShape)))

\* the same events but for the time they were created at
SameEvents(a, b) ==
    /\ Len(a) = Len(b)
    /\ \A k \in DOMAIN a :
          /\ a[k].event_type = b[k].event_type
          /\ a[k].data = b[k].data
          /\ a[k].event_id = b[k].event_id
          /\ a[k].source = b[k].source

\* the step is a get_events call (no other step sets ret or keeps it and the clock)
GetStep == ret'.op = "realtime_get_events" /\ now' = now

\* C24: get_events without clear_buffer leaves the buffer as it is, and a call
\* that follows it with the same options and no push in between returns the
\* same events (they differ in nothing but their creation time); get_events
\* with clear_buffer leaves the buffer empty, and a call that follows it with
\* no push in between returns no event.
C24_PeekAndDrain ==
    [][GetStep =>
        /\ events_buffer' = IF arg'.clear_buffer THEN <<>> ELSE events_buffer
        /\ (/\ RealtimeReturned
            /\ ~arg.clear_buffer
            /\ arg'.event_type = arg.event_type
            /\ arg'.limit = arg.limit) => SameEvents(ret.value, ret'.value)
        /\ (RealtimeReturned /\ arg.clear_buffer) => ret'.value = <<>>]_vars

\* a read that returned events and left them in the buffer, some time ago
C24_Witness ==
    /\ RealtimeReturned
    /\ ~arg.clear_buffer
    /\ ret.value # <<>>
    /\ events_buffer = ret.found
    /\ ret.at < now

\* C25: with events pushed by add_event (every record of valid shape),
\* get_events returns them in push order: those of the event type it names,
\* all of them if it names none, and of these the first n for a limit n > 0.
C25_PushOrder ==
    (RealtimeReturned /\ \A i \in DOMAIN ret.found : ValidShape(ret.found[i]))
    => EventsOf(ret.value, Limited(Asked))

\* two events of different types in the buffer, and a call with limit 1
C25_Witness ==
    /\ RealtimeReturned
    /\ Len(ret.found) = 2
    /\ ValidShape(ret.found[1]) /\ ValidShape(ret.found[2])
    /\ ret.found[1].event_type # ret.found[2].event_type
    /\ arg.limit = 1
    /\ arg.event_type = NoOption
    /\ Len(ret.value) = 1

(***************************************************************************)
(* The channels.                                                           *)
(***************************************************************************)
SendReturned == arg.op = "send" /\ ret # NoRet

\* the part of an address after its first "@"
RECURSIVE DomainPart(_)
DomainPart(r) ==
    IF r = <<>> THEN <<>> ELSE IF Head(r) = "@" THEN Tail(r) ELSE DomainPart(Tail(r))

\* an address without "@", or without "." after it
InvalidEmail(r) ==
    \/ \A i \in DOMAIN r : r[i] # "@"
    \/ \A i \in DOMAIN DomainPart(r) : DomainPart(r)[i] # "."

\* a Slack recipient that starts with neither "#" nor "@"
InvalidSlack(r) == r = <<>> \/ r[1] \notin {"#", "@"}

\* the recipient of the call is invalid for its channel; a recipient that is
\* no string is invalid for both
InvalidRecipient ==
    \/ arg.recipient.kind # "str"
    \/ arg.channel = "EmailChannel" /\ InvalidEmail(arg.recipient.s)
    \/ arg.channel = "SlackChannel" /\ InvalidSlack(arg.recipient.s)

\* C26: send with an invalid recipient returns a Result (it does not raise)
\* that has success false and an error detail, for the recipient and the
\* channel of the call, and the channel delivers nothing.
C26_InvalidRecipient ==
    (SendReturned /\ InvalidRecipient)
    => /\ ~ret.result.success
       /\ ret.result.error # NoError
       /\ ret.result.recipient = arg.recipient
       /\ ret.result.channel = IF arg.channel = "EmailChannel" THEN s_email ELSE s_slack
       /\ ret.delivered = <<>>

\* the email channel was given an address with "@" and no "." in its domain
C26_Witness ==
    /\ SendReturned
    /\ arg.channel = "EmailChannel"
    /\ arg.recipient = StrVal(<<"u","@","x">>)
    /\ arg.written
    /\ ~ret.result.success

(***************************************************************************)
(* Template failures and what is recorded after a send.                    *)
(***************************************************************************)
\* the current pair of worker w has its recipient and is about to fail at the
\* template: the engine does not resolve, or render raises
TemplateFails(w) ==
    /\ pc[w] = "begin"
    /\ CurConfig(w).recipient_field \in DOMAIN CurEvent(w).data
    /\ truthy(CurEvent(w).data[CurConfig(w).recipient_field])
    /\ \/ "TemplateEngine" \notin services
       \/ CurConfig(w).template \notin DOMAIN TemplateFiles

\* C27: a pair whose template engine does not resolve, or whose render fails,
\* ends with a failure Result that carries the error (the render error names
\* the template); should_send and send are not invoked for it, and History
\* and the cache do not change.
C27_TemplateFailure ==
    [][(TemplateFails(1) /\ Stepped(1))
       => /\ PairEnds(1)
          /\ ~Last(results'[1]).success
          /\ Len(Last(results'[1]).error) = 2
          /\ Last(results'[1]).error[2] =
                IF "TemplateEngine" \notin services
                THEN "TemplateEngine" ELSE CurConfig(1).template
          /\ Last(log'[1]).calls \cap {"should_send", "send", "add_sent_message"} = {}
          /\ StateKept]_vars

\* with a message in History and in the cache, a pair failed at its render
C27_Witness ==
    /\ pc[1] = "done"
    /\ sent_messages # <<>>
    /\ sent_messages_cache # <<>>
    /\ \E j \in DOMAIN log[1] :
          /\ log[1][j].calls = {"render"}
          /\ ~results[1][j].success
          /\ results[1][j].error = <<"Failed to render template", log[1][j].config.template>>

\* the configuration names a deduplication policy: its policy name is one a
\* policy answers to
NamesPolicy(config) == lower(config.deduplication_policy) = s_content_based

\* message m was built through a configuration that names a policy
ThroughPolicy(m) ==
    \E config \in PipelineConfigs \cup PolicyConfigs :
        /\ NamesPolicy(config)
        /\ m.channel = config.channel
        /\ m.template = config.template
        /\ m.metadata = config.metadata

\* C28: add_sent_message is called for a pair exactly when its send
\* succeeded and its configuration names a policy; the cache changes only in
\* that call and holds only messages of such configurations; a message sent
\* through a configuration without a policy is appended to History and the
\* cache stays as it is.
C28_RecordSent ==
    /\ [](\A j \in DOMAIN log[1] :
            ("add_sent_message" \in log[1][j].calls)
            <=> (/\ "send" \in log[1][j].calls
                 /\ results[1][j].success
                 /\ NamesPolicy(log[1][j].config)))
    /\ [](\A k \in DOMAIN sent_messages_cache :
            \A i \in DOMAIN sent_messages_cache[k] :
                ThroughPolicy(sent_messages_cache[k][i]))
    /\ [][/\ (sent_messages_cache' # sent_messages_cache)
             => /\ pc[1] = "record"
                /\ frame[1].result.success
                /\ NamesPolicy(CurConfig(1))
          /\ (pc[1] = "record" /\ Stepped(1))
             => /\ sent_messages' = Append(sent_messages, frame[1].message)
                /\ Last(results'[1]) = frame[1].result]_vars

\* one event through a configuration with a policy and one without: both
\* messages are in History, the first one alone is in the cache
C28_Witness ==
    /\ pc[1] = "done"
    /\ Len(sent_messages) = 2
    /\ \E i, j \in DOMAIN log[1] :
          /\ "add_sent_message" \in log[1][i].calls
          /\ log[1][j].config.deduplication_policy = NoPolicy
          /\ results[1][j].success
          /\ \E k \in DOMAIN sent_messages_cache :
                sent_messages_cache[k] = <<log[1][i].message>>
          /\ \A k \in DOMAIN sent_messages_cache :
                \A n \in DOMAIN sent_messages_cache[k] :
                    sent_messages_cache[k][n] # log[1][j].message
          /\ \E n \in DOMAIN sent_messages : sent_messages[n] = log[1][j].message

(***************************************************************************)
(* Eviction.                                                               *)
(***************************************************************************)
\* the calls that write the cache
CacheWrites == {"add_sent_message", "clear_cache"}

\* the cache holds an entry older than the window
HoldsExpired ==
    \E k \in DOMAIN sent_messages_cache :
        \E i \in DOMAIN sent_messages_cache[k] :
            sent_messages_cache[k][i].timestamp < now - time_window_hours

\* C29: the cache changes only in add_sent_message (and clear_cache):
\* should_send, get_deduplication_key, get_duplicate_count and the passage of
\* time leave it as it is, entries older than the window included.
C29_EvictionOnWrite ==
    [][/\ (sent_messages_cache' # sent_messages_cache)
          => now' = now /\ ret'.op \in CacheWrites
       /\ (now' # now \/ ret'.op \notin CacheWrites)
          => sent_messages_cache' = sent_messages_cache]_vars

\* an entry older than the window is in the cache after should_send has
\* answered true on its account
C29_Witness ==
    /\ HoldsExpired
    /\ ret.op = "should_send"
    /\ ret.value

(***************************************************************************)
(* The delimiter of the key.                                               *)
(***************************************************************************)
\* the normalized fields the key of message m is made of
NormalizedTuple(m) ==
    <<strip(m.content), lower(m.recipient.s), lower(m.channel), lower(m.template)>>

\* C30: two messages whose normalized tuples (content, recipient, channel,
\* template) differ never get the same key, also when a field holds the
\* delimiter "|".
C30_AsStated ==
    (/\ arg.op = "keys"
     /\ ret # NoRet
     /\ NormalizedTuple(arg.m1) # NormalizedTuple(arg.m2))
    => ret.key1 # ret.key2

(***************************************************************************)
(* Configurations without a policy, and what the decision reads.           *)
(***************************************************************************)
\* the j-th pair of worker w has a configuration without a policy name, its
\* recipient resolves and its template renders
Unguarded(w, j) ==
    LET config == log[w][j].config
        data == frame[w].events[log[w][j].ev_i].data
    IN  /\ config.deduplication_policy = NoPolicy
        /\ config.recipient_field \in DOMAIN data
        /\ truthy(data[config.recipient_field])
        /\ "TemplateEngine" \in services
        /\ config.template \in DOMAIN TemplateFiles

\* the channel of the configuration is one the container provides
ChannelProvided(config) ==
    \/ lower(config.channel) = s_email /\ "EmailChannel" \in services
    \/ lower(config.channel) = s_slack /\ "SlackChannel" \in services

\* C31: a pair whose configuration has no policy name, whose recipient
\* resolves and whose template renders is never suppressed, whatever History
\* holds: should_send is not asked, the Result is no skip, and the channel's
\* send is invoked when the container provides the channel.
C31_NeverSuppressed ==
    \A j \in DOMAIN log[1] :
        Unguarded(1, j)
        => /\ "should_send" \notin log[1][j].calls
           /\ results[1][j].message # SkippedText
           /\ ChannelProvided(log[1][j].config) => "send" \in log[1][j].calls

\* the same event twice through a configuration without a policy: two sends,
\* the second one with the first message in History
C31_Witness ==
    /\ pc[1] = "done"
    /\ Len(log[1]) = 2
    /\ Unguarded(1, 1) /\ Unguarded(1, 2)
    /\ log[1][1].config = log[1][2].config
    /\ frame[1].events[1] = frame[1].events[2]
    /\ results[1][1].success /\ results[1][2].success
    /\ "send" \in log[1][1].calls /\ "send" \in log[1][2].calls
    /\ Len(sent_messages) = 2
    /\ SameKey(sent_messages[1], sent_messages[2])

\* the policy is about to be asked about the current pair of worker w
Decides(w) ==
    /\ pc[w] = "check"
    /\ lower(CurConfig(w).deduplication_policy) = s_content_based
    /\ "ContentBasedDeduplicationPolicy" \in services
    /\ frame[w].message.recipient.kind = "str"

\* list q holds a message with the key of m that is inside the window at time t
HoldsRecent(q, m, t) ==
    \E i \in DOMAIN q :
        SameKey(q[i], m) /\ q[i].timestamp >= t - time_window_hours

\* C32: the pair is suppressed exactly when History holds a message with its
\* key inside the window, whatever the policy's cache holds: a message sent
\* through any configuration counts, and one that clear_sent_messages has
\* removed does not.
C32_HistoryDecides ==
    [][(Decides(1) /\ Stepped(1))
       => IF HoldsRecent(sent_messages, frame[1].message, now)
          THEN /\ PairEnds(1)
               /\ Last(results'[1]).message = SkippedText
               /\ ~Last(results'[1]).success
          ELSE /\ ~PairEnds(1)
               /\ pc'[1] = "send"]_vars

\* after clear_sent_messages the pair has passed the policy's check although
\* the cache holds a message with its key inside the window
C32_Witness ==
    /\ pc[1] = "send"
    /\ "should_send" \in frame[1].calls
    /\ sent_messages = <<>>
    /\ HoldsRecent(get_all_sent_messages(sent_messages_cache), frame[1].message, now)

\* a pair of the configuration with a policy was suppressed on account of a
\* message sent through the configuration without one; the cache is empty
C32_NoPolicySuppresses ==
    /\ pc[1] = "done"
    /\ sent_messages_cache = <<>>
    /\ \E j \in DOMAIN log[1] :
          /\ log[1][j].config = ConfigEmail
          /\ results[1][j].message = SkippedText
    /\ \A i \in DOMAIN sent_messages : sent_messages[i].metadata = NoMetadata

(***************************************************************************)
(* The cache of a registry that is used sequentially.                      *)
(***************************************************************************)
\* C33: with one caller, no clear_sent_messages and no direct call on the
\* policy, the cache holds at most one message per key after every
\* add_sent_message (and so at all times between two of them): the number
\* get_duplicate_count gives is 0 or 1.
C33_OnePerKey ==
    /\ \A k \in DOMAIN sent_messages_cache : Len(sent_messages_cache[k]) = 1
    /\ \A j \in DOMAIN log[1] :
          log[1][j].message # NoMessage /\ log[1][j].message.recipient.kind = "str"
          => get_duplicate_count(sent_messages_cache, log[1][j].message) \in {0, 1}

\* a key was recorded twice: History holds both messages, the cache the
\* second one alone
C33_Witness ==
    /\ pc[1] = "done"
    /\ Len(sent_messages) = 2
    /\ SameKey(sent_messages[1], sent_messages[2])
    /\ sent_messages[1].timestamp < sent_messages[2].timestamp
    /\ \E k \in DOMAIN sent_messages_cache : sent_messages_cache[k] = <<sent_messages[2]>>
    /\ "add_sent_message" \in Last(log[1]).calls

(***************************************************************************)
(* Concurrent add_sent_message.                                            *)
(***************************************************************************)
\* both add_sent_message calls are over: returned, or ended by an exception
BothOver == \A w \in Workers : pc[w] \in {"returned", "raised"}

\* C34: when two concurrent add_sent_message calls on one policy are over,
\* neither has raised and the cache holds both messages.
C34_AsStated ==
    BothOver
    => /\ \A w \in Workers : pc[w] = "returned"
       /\ \A w \in Workers :
             \E k \in DOMAIN sent_messages_cache :
                \E i \in DOMAIN sent_messages_cache[k] :
                    sent_messages_cache[k][i] = AddedBy(w, now)

\* when both calls have returned, the cache holds both messages (it does not:
\* one call stores the list it filtered before the other one appended)
C34_LostEntry ==
    ~(/\ \A w \in Workers : pc[w] = "returned"
      /\ \E w \in Workers :
            \A k \in DOMAIN sent_messages_cache :
                \A i \in DOMAIN sent_messages_cache[k] :
                    sent_messages_cache[k][i] # AddedBy(w, now))

\* no call ends with KeyError (one does: the key it is about to read was
\* deleted by the cleanup of the other call)
C34_NoKeyError == \A w \in Workers : pc[w] # "raised"

(***************************************************************************)
(* Registering a pair again.                                               *)
(***************************************************************************)
\* the (event_type, channel) pairs of a list of configurations
PairsOf(configs) == [i \in DOMAIN configs |-> Pair(configs[i])]

\* C35: a pair that is registered again keeps its position and gets the new
\* configuration: the pairs that get_configurations showed are at the same
\* positions ever after, each position holds the configuration registered
\* last for its pair, and the Results of an event come in that order.
C35_PositionKept ==
    /\ ret.op = "get_configurations"
       => /\ Len(ret.registered) <= Len(configurations)
          /\ \A i \in DOMAIN ret.registered :
                Pair(configurations[i].config) = Pair(ret.registered[i])
    /\ \A i \in DOMAIN configurations :
          configurations[i].config = lastReg[Pair(configurations[i].config)]
    /\ \A j \in DOMAIN log[1] :
          /\ j <= Len(configurations)
          /\ log[1][j].config = configurations[j].config
          /\ results[1][j].channel = configurations[j].config.channel

\* slack then email were registered, then the slack pair again with another
\* configuration: the Results are the slack one, then the email one
C35_Witness ==
    /\ ret.op = "get_configurations"
    /\ ret.registered = <<ConfigSlack, ConfigEmail>>
    /\ values(configurations) = <<ConfigUnknown, ConfigEmail>>
    /\ pc[1] = "done"
    /\ Len(results[1]) = 2
    /\ results[1][1].channel = s_slack /\ results[1][1].success
    /\ results[1][2].channel = s_email /\ results[1][2].success

(***************************************************************************)
(* Falsy recipients.                                                       *)
(***************************************************************************)
\* the event of the j-th pair of worker w has the recipient field, with the
\* value "", None or 0
FieldFalsy(w, j) ==
    LET field == log[w][j].config.recipient_field
        data == frame[w].events[log[w][j].ev_i].data
    IN  /\ field \in DOMAIN data
        /\ data[field] \in {StrVal(<<>>), NoneVal, IntVal(<<"0">>)}

\* the Result and the calls of a pair whose recipient is missing
MissingRecipient(r, b) ==
    /\ ~r.success
    /\ r.error = <<"Recipient field not found in event data", b.config.recipient_field>>
    /\ r.message = <<"Failed to process notification", r.error>>
    /\ r.channel = b.config.channel
    /\ b.calls = {}
    /\ b.message = NoMessage

\* C36: a pair whose recipient field is present with a falsy value ends like
\* a pair whose field is absent: with the missing-recipient failure Result and
\* without render, policy check or send.
C36_FalsyRecipient ==
    \A j \in DOMAIN log[1] :
        (FieldFalsy(1, j) \/ FieldMissing(1, j))
        => MissingRecipient(results[1][j], log[1][j])

\* one batch with an event whose address is "" and one that has no address
C36_Witness ==
    /\ pc[1] = "done"
    /\ values(configurations) = <<ConfigEmail>>
    /\ frame[1].events = <<EventEmpty, EventNoEmail>>
    /\ FieldFalsy(1, 1)
    /\ FieldMissing(1, 2)
    /\ results[1][1].error = results[1][2].error

(***************************************************************************)
(* What a read removes and what a filter leaves behind.                    *)
(***************************************************************************)
\* C37: after get_events with clear_buffer the buffer is empty, whatever the
\* call returned: the records it left out (another event type, beyond the
\* limit, malformed) are gone with the ones it returned.
C37_DrainsAll ==
    (RealtimeReturned /\ arg.clear_buffer)
    => /\ events_buffer = <<>>
       /\ Len(ret.value) <= Len(ret.found)

\* a drain that asked for one event type found a malformed record of that
\* type and a record of another type, and returned nothing
C37_Witness ==
    /\ RealtimeReturned
    /\ arg.clear_buffer
    /\ arg.event_type = et_a
    /\ Len(ret.found) = 2
    /\ \E i, j \in DOMAIN ret.found :
          /\ ~ValidShape(ret.found[i]) /\ ret.found[i].event_type = et_a
          /\ ValidShape(ret.found[j]) /\ ret.found[j].event_type # et_a
    /\ ret.value = <<>>
    /\ events_buffer = <<>>

\* a drain with limit 1 found two records of valid shape and returned one
C37_CutByLimit ==
    /\ RealtimeReturned
    /\ arg.clear_buffer
    /\ arg.limit = 1
    /\ Len(ret.found) = 2
    /\ ValidShape(ret.found[1]) /\ ValidShape(ret.found[2])
    /\ Len(ret.value) = 1
    /\ events_buffer = <<>>

\* the call asked every query for the events of one type
FilteredAll == ScheduledReturned /\ arg.query_name = "" /\ arg.event_type # NoOption

\* C38: get_events with an event type and no query name runs every query
\* that is due, those of another event type included: each of them is stamped
\* last_run = now and, if its schedule is a named one, is not due before the
\* schedule's interval has passed; the call returns events of the type asked
\* for only, so the events of the other queries are lost.
C38_FilterRunsAll ==
    FilteredAll =>
        /\ \A i \in DOMAIN ret.found :
              Due(ret.found[i], ret.at)
              => /\ queries[i].last_run = RanAt(ret.at)
                 /\ queries[i].schedule \in NamedSchedules
                    => \A t \in Instants :
                          (t >= ret.at /\ t - ret.at < Interval(queries[i].schedule))
                          => ~should_run_query(queries[i], t)
        /\ \A k \in DOMAIN ret.value : ret.value[k].event_type = arg.event_type

\* a daily query of another event type had never run and has result rows: the
\* call stamped it and returned none of its events
C38_Witness ==
    /\ FilteredAll
    /\ \E i \in DOMAIN ret.found :
          /\ ret.found[i].event_type # arg.event_type
          /\ ret.found[i].schedule = "daily"
          /\ ~ret.found[i].last_run.ran
          /\ query_results(ret.found[i], mock_data) # <<>>
          /\ queries[i].last_run = RanAt(ret.at)
    /\ ret.value # <<>>
    /\ \A k \in DOMAIN ret.value : ret.value[k].event_type = arg.event_type

====
